---- MODULE Spec2Model ----
(***************************************************************************)
(* Geometric measurement and symbol detection engine of SnapPlan:          *)
(* wall-opening pipeline, overlap suppression, scale calibration, scale    *)
(* persistence and the process-wide detection-model handle.                *)
(*                                                                         *)
(* Numbers.  Pixel coordinates and sizes are integers.  Confidences are    *)
(* integers in hundredths (0.9 is 90).  Ratios that the code compares      *)
(* (IoU, pixels_per_meter) are kept as exact fractions [num, den] with     *)
(* den > 0, so a comparison is a cross multiplication.                     *)
(***************************************************************************)
EXTENDS Integers, Sequences, FiniteSets, TLC

VARIABLES
    call,            \* pure-function harness: the call made (function name and arguments)
    ret,             \* pure-function harness: what that call returned, or that it raised
    tmpfiles,        \* paths of the temporary rendered images that exist on disk
    scale_contexts,  \* rows of the scale_contexts table
    next_id,         \* the next row id (uuid4) and creation time
    storeClient,     \* per client: where its store_scale_context call stands
    yolo_model,      \* the global _yolo_model
    yolo_model_path, \* the global _yolo_model_path
    yoloThread,      \* per thread: where its get_yolo_model call stands
    yoloLog          \* history of get_yolo_model: calls, loads, paths, returned handles

storeVars == <<scale_contexts, next_id, storeClient>>

yoloVars == <<yolo_model, yolo_model_path, yoloThread, yoloLog>>

\* What a call of a pure function leaves alone.
worldVars == <<tmpfiles, storeVars, yoloVars>>

\* What a step of store_scale_context leaves alone.
notStoreVars == <<call, ret, tmpfiles, yoloVars>>

\* What a step of get_yolo_model leaves alone.
notYoloVars == <<call, ret, tmpfiles, storeVars>>

vars == <<call, ret, tmpfiles, storeVars, yoloVars>>

(***************************************************************************)
(* Bounds of the model.                                                    *)
(***************************************************************************)
MaxOpenings == 3      \* longest list of openings handed to a list operation
MaxCoord == 2         \* opening centers lie on the grid 0..MaxCoord x 0..1
MaxThreshold == 2     \* distance thresholds 1..MaxThreshold
MaxRegions == 1       \* longest list of hatch regions
MaxHatchOpenings == 2 \* longest list of openings handed to the hatch filter
MaxObjects == 3       \* longest list of detections handed to the overlap suppression
MaxExpressions == 2   \* most scale expressions in one page text
MaxPages == 2         \* most pages in a document
MaxWalls == 2         \* most wall segments handed to a wall-length computation
MaxPipelineOpenings == 1 \* most openings find_wall_openings reports in a pipeline run
MaxYoloDoors == 3     \* most doors the detection model reports in a pipeline run
MaxStoreCalls == 3    \* store_scale_context calls in one behaviour
MaxYoloCalls == 3     \* get_yolo_model calls in one behaviour
MaxBoxCoord == 1      \* bounding boxes have their corner at x in 0..MaxBoxCoord
MaxDetections == 2    \* most boxes the detection model reports on a page
MaxValidated == 2     \* longest list of openings handed to the width validation
MaxArcs == 2          \* most quarter circles on a page
MaxLeafLines == 2     \* most line operators on a page handed to the door matching
MaxWindowLines == 4   \* most line operators on a page handed to the window pairing
MaxGapLines == 3      \* most wall lines of one orientation handed to the gap search
MaxPolyCoord == 2     \* segment ends and polygon vertices lie on the grid 0..MaxPolyCoord squared

(***************************************************************************)
(* Helpers.                                                                *)
(***************************************************************************)
NoCall == [fn |-> "none"]

Range(s) == {s[i] : i \in 1..Len(s)}

\* All sequences over S of length at most n.
SeqsUpTo(S, n) == UNION {[1..k -> S] : k \in 0..n}

Sq(x) == x * x

(***************************************************************************)
(* WallOpening: the fields the list operations read.  opening_id is unique *)
(* within a list (generate_opening_id draws a fresh uuid per opening).     *)
(***************************************************************************)
\* Two of the confidences validate_door_openings assigns (0.75 and 0.9).
ConfidenceLevels == {75, 90}

OpeningLists ==
    SeqsUpTo([center_x : 0..MaxCoord, center_y : 0..1,
              confidence : ConfidenceLevels], MaxOpenings)

\* Attach the list position as the unique opening_id.
WithIds(s) ==
    [i \in 1..Len(s) |->
        [opening_id |-> i, center_x |-> s[i].center_x,
         center_y |-> s[i].center_y, confidence |-> s[i].confidence]]

(***************************************************************************)
(* sorted(xs, key=confidence, reverse=True): stable, descending.           *)
(***************************************************************************)
InsertByConfidence(sorted, o) ==
    LET k == Cardinality({i \in 1..Len(sorted) : sorted[i].confidence >= o.confidence})
    IN  SubSeq(sorted, 1, k) \o <<o>> \o SubSeq(sorted, k + 1, Len(sorted))

RECURSIVE SortFrom(_, _, _)
SortFrom(xs, i, acc) ==
    IF i > Len(xs) THEN acc
    ELSE SortFrom(xs, i + 1, InsertByConfidence(acc, xs[i]))

\* The openings left in the order of the input.
InInputOrder(xs) == xs

SortByConfidenceDesc(xs) == SortFrom(xs, 1, <<>>)

(***************************************************************************)
(* deduplicate_openings                                                    *)
(***************************************************************************)
DistSq(a, b) == Sq(a.center_x - b.center_x) + Sq(a.center_y - b.center_y)

\* math.sqrt(dx**2 + dy**2) <= t: the off-by-one variant of the duplicate test.
IsDuplicateDistanceInclusive(a, b, t) == t >= 0 /\ DistSq(a, b) <= Sq(t)

\* math.sqrt(dx**2 + dy**2) < distance_threshold_px, on exact integers.
IsDuplicateDistance(a, b, t) == t > 0 /\ DistSq(a, b) < Sq(t)

RECURSIVE DedupLoop(_, _, _, _, _)
DedupLoop(sorted, i, kept, used, t) ==
    IF i > Len(sorted) THEN kept
    ELSE LET opening == sorted[i]
             is_duplicate ==
                 \E k \in 1..Len(kept) : IsDuplicateDistance(opening, kept[k], t)
         IN  IF opening.opening_id \in used
             THEN DedupLoop(sorted, i + 1, kept, used, t)
             ELSE IF is_duplicate
                  THEN DedupLoop(sorted, i + 1, kept, used, t)
                  ELSE DedupLoop(sorted, i + 1, Append(kept, opening),
                                 used \cup {opening.opening_id}, t)

deduplicate_openings(openings, distance_threshold_px) ==
    IF Len(openings) <= 1 THEN openings
    ELSE DedupLoop(SortByConfidenceDesc(openings), 1, <<>>, {}, distance_threshold_px)

(***************************************************************************)
(* filter_openings_in_hatch.  A hatch region is (hx, hy, hw, hh).          *)
(***************************************************************************)
\* A containment test that forgets the vertical extent of the region.
InHatchRegionXOnly(opening, region) ==
    region[1] <= opening.center_x /\ opening.center_x <= region[1] + region[3]

\* hx <= center_x <= hx + hw and hy <= center_y <= hy + hh
InHatchRegion(opening, region) ==
    /\ region[1] <= opening.center_x /\ opening.center_x <= region[1] + region[3]
    /\ region[2] <= opening.center_y /\ opening.center_y <= region[2] + region[4]

RECURSIVE HatchLoop(_, _, _, _)
HatchLoop(openings, hatch_regions, i, filtered) ==
    IF i > Len(openings) THEN filtered
    ELSE LET in_hatch ==
                 \E r \in 1..Len(hatch_regions) :
                     InHatchRegion(openings[i], hatch_regions[r])
         IN  HatchLoop(openings, hatch_regions, i + 1,
                       IF in_hatch THEN filtered ELSE Append(filtered, openings[i]))

filter_openings_in_hatch(openings, hatch_regions) ==
    IF hatch_regions = <<>> THEN openings
    ELSE HatchLoop(openings, hatch_regions, 1, <<>>)

\* Bounding boxes as detect_hatch_regions reports them: (min_x, min_y, w, h), w, h >= 0.
HatchRegions ==
    {<<hx, hy, hw, hh>> : hx \in 0..1, hy \in 0..1, hw \in {0, 2}, hh \in {0, 2}}

\* Openings as find_wall_openings creates them: confidence at its default 0.5.
HatchOpeningLists ==
    SeqsUpTo([center_x : 0..MaxCoord, center_y : 0..2, confidence : {50}],
             MaxHatchOpenings)

HatchRegionLists == SeqsUpTo(HatchRegions, MaxRegions)

(***************************************************************************)
(* Overlap suppression: _compute_iou and _merge_overlapping_detections.    *)
(* A BoundingBox is [x, y, width, height]; its area is width * height.     *)
(***************************************************************************)
Max2(a, b) == IF a >= b THEN a ELSE b
Min2(a, b) == IF a <= b THEN a ELSE b

BoxArea(b) == b.width * b.height

Zero == [num |-> 0, den |-> 1]

\* a > b for fractions with positive denominators.
FracGreater(a, b) == a.num * b.den > b.num * a.den

\* a >= b: what "iou >= iou_threshold" would compare.
FracGreaterOrEqual(a, b) == a.num * b.den >= b.num * a.den

\* intersection / union, as an exact fraction; 0.0 when the boxes do not overlap.
compute_iou(box1, box2) ==
    LET x1 == Max2(box1.x, box2.x)
        y1 == Max2(box1.y, box2.y)
        x2 == Min2(box1.x + box1.width, box2.x + box2.width)
        y2 == Min2(box1.y + box1.height, box2.y + box2.height)
        intersection == (x2 - x1) * (y2 - y1)
        union == BoxArea(box1) + BoxArea(box2) - intersection
    IN  IF x2 <= x1 \/ y2 <= y1 THEN Zero
        ELSE IF union > 0 THEN [num |-> intersection, den |-> union] ELSE Zero

\* The suppression test with >= in place of >.
OverlapsInclusive(a, b, iou_threshold) ==
    FracGreaterOrEqual(compute_iou(a.bbox, b.bbox), iou_threshold)

\* iou > iou_threshold
Overlaps(a, b, iou_threshold) == FracGreater(compute_iou(a.bbox, b.bbox), iou_threshold)

\* for i, obj in enumerate(sorted_objects): keep it unless suppressed, then
\* suppress every later, not yet suppressed j with iou(obj, j) > threshold.
RECURSIVE MergeLoop(_, _, _, _, _)
MergeLoop(sorted_objects, i, kept, suppressed, iou_threshold) ==
    IF i > Len(sorted_objects) THEN kept
    ELSE IF i \in suppressed
         THEN MergeLoop(sorted_objects, i + 1, kept, suppressed, iou_threshold)
         ELSE MergeLoop(sorted_objects, i + 1, Append(kept, sorted_objects[i]),
                  suppressed \cup
                      {j \in (i + 1)..Len(sorted_objects) :
                          /\ j \notin suppressed
                          /\ Overlaps(sorted_objects[i], sorted_objects[j], iou_threshold)},
                  iou_threshold)

merge_overlapping_detections(objects, iou_threshold) ==
    IF Len(objects) <= 1 THEN objects
    ELSE MergeLoop(SortByConfidenceDesc(objects), 1, <<>>, {}, iou_threshold)

\* The default threshold 0.5 and a stricter one.
IouThresholds == {[num |-> 1, den |-> 2], [num |-> 1, den |-> 3]}

\* Boxes of three shapes at every x of the grid: a unit box and a box twice as
\* wide on the row y = 0, and a unit box on the row y = 1.
BoxShapes == {<<0, 1, 1>>, <<0, 2, 1>>, <<1, 1, 1>>}

Boxes ==
    {[x |-> bx, y |-> sh[1], width |-> sh[2], height |-> sh[3]] :
        bx \in 0..MaxBoxCoord, sh \in BoxShapes}

DetectedObjectLists ==
    SeqsUpTo([bbox : Boxes, confidence : ConfidenceLevels], MaxObjects)

\* Attach the list position as the unique object_id.
WithObjectIds(s) ==
    [i \in 1..Len(s) |->
        [object_id |-> i, bbox |-> s[i].bbox, confidence |-> s[i].confidence]]

(***************************************************************************)
(* Scale calibration (scale_calibration.py).                               *)
(*                                                                         *)
(* None is Python's None.  A function result is Returned(v) or Raised(e).  *)
(* Real numbers are exact fractions [num, den], den > 0.                   *)
(***************************************************************************)
None == [none |-> TRUE]

Returned(v) == [raised |-> FALSE, value |-> v]
Raised(e) == [raised |-> TRUE, error |-> e]

Frac(n, d) == [num |-> n, den |-> d]

IsPositive(f) == f.num > 0
Abs(x) == IF x < 0 THEN -x ELSE x

\* The page text, reduced to the scale expressions it contains, in reading
\* order.  An expression is the word written before "1:<den>" (a sequence of
\* characters, empty when nothing is written before it) and the denominator.
\* "ESZETT" stands for the letter sharp s and "CAPITAL_ESZETT" for its capital.
Massstab == <<"M", "A", "S", "S", "S", "T", "A", "B">>
MassstabEszett == <<"M", "a", "ESZETT", "s", "t", "a", "b">>
Masstab == <<"M", "A", "S", "S", "T", "A", "B">>
ScaleWord == <<"S", "C", "A", "L", "E">>
PrefixM == <<"M">>
PrefixMDot == <<"M", ".">>
NoWord == <<>>
Digit == <<"1">>

Keywords ==
    {Massstab, MassstabEszett, Masstab, ScaleWord, PrefixM, PrefixMDot, NoWord, Digit}

ScaleExpressions == [kw : Keywords, den : {0, 100, 20000}]

PageTexts == SeqsUpTo(ScaleExpressions, MaxExpressions)

\* The character classes the keyword patterns are made of.
MassstabClasses ==
    <<{"M", "m"}, {"A", "a"}, {"S", "s", "ESZETT", "CAPITAL_ESZETT"}, {"S", "s"},
      {"T", "t"}, {"A", "a"}, {"B", "b"}>>

ScaleClasses == <<{"S", "s"}, {"C", "c"}, {"A", "a"}, {"L", "l"}, {"E", "e"}>>

\* The word ends with characters of these classes, one per class: the pattern
\* matches there, since \s* lets "1:<den>" follow after any white space.
EndsWith(word, classes) ==
    /\ Len(word) >= Len(classes)
    /\ \A i \in 1..Len(classes) : word[Len(word) - Len(classes) + i] \in classes[i]

\* patterns_with_confidence, in the order the code tries them:
\*   1  [Mm][Aa][Ss<eszett>][Ss][Tt][Aa][Bb]\s*1\s*:\s*(\d+)
\*   2  [Ss][Cc][Aa][Ll][Ee]\s*1\s*:\s*(\d+)
\*   3  [Mm]\.?\s*1\s*:\s*(\d+)
\*   4  (?<![0-9/])1\s*:\s*(\d+)(?![0-9])
PatternConfidence == <<95, 90, 85, 70>>

PatternMatches(p, expr) ==
    IF p = 1 THEN EndsWith(expr.kw, MassstabClasses)
    ELSE IF p = 2 THEN EndsWith(expr.kw, ScaleClasses)
    ELSE IF p = 3 THEN \/ EndsWith(expr.kw, <<{"M", "m"}>>)
                       \/ EndsWith(expr.kw, <<{"M", "m"}, {"."}>>)
    ELSE ~EndsWith(expr.kw, <<{"0", "1", "2", "3", "4", "5", "6", "7", "8", "9", "/"}>>)

\* re.search: the leftmost match of pattern p, 0 when there is none.
FirstMatch(p, text) ==
    IF \E i \in 1..Len(text) : PatternMatches(p, text[i])
    THEN CHOOSE i \in 1..Len(text) :
             /\ PatternMatches(p, text[i])
             /\ \A k \in 1..(i - 1) : ~PatternMatches(p, text[k])
    ELSE 0

RECURSIVE DetectFromPattern(_, _)
DetectFromPattern(p, text) ==
    IF p > 4 THEN None
    ELSE LET m == FirstMatch(p, text)
         IN  IF m # 0 /\ text[m].den >= 1 /\ text[m].den <= 10000
             THEN [scale_string |-> [ratio |-> text[m].den],
                   scale_factor |-> text[m].den,
                   confidence |-> PatternConfidence[p]]
             ELSE DetectFromPattern(p + 1, text)

detect_scale_from_text(page_text) == DetectFromPattern(1, page_text)

\* INCHES_PER_METER = 39.3701, in ten-thousandths.
INCHES_PER_METER_E4 == 393701

\* (1.0 / scale_factor) * INCHES_PER_METER * dpi; ValueError unless scale_factor > 0.
compute_pixels_per_meter(scale_factor, dpi) ==
    IF scale_factor <= 0 THEN Raised("ValueError")
    ELSE Returned(Frac(INCHES_PER_METER_E4 * dpi, 10000 * scale_factor))

NoScaleContext(page_number, dpi) ==
    [scale_string |-> None, scale_factor |-> None, pixels_per_meter |-> None,
     detection_method |-> "none", confidence |-> 0, source_page |-> page_number,
     render_dpi |-> dpi, user_reference_px |-> None, user_reference_m |-> None,
     is_active |-> TRUE]

\* A page as detect_scale_from_page sees it: whether extract_page_text raises,
\* the text it returns, and page_info.dpi.
detect_scale_from_page(page_number, page) ==
    IF page.extract_fails THEN Returned(NoScaleContext(page_number, page.dpi))
    ELSE LET result == detect_scale_from_text(page.text)
         IN  IF result = None THEN Returned(NoScaleContext(page_number, page.dpi))
             ELSE LET ppm == compute_pixels_per_meter(result.scale_factor, page.dpi)
                  IN  IF ppm.raised THEN ppm
                      ELSE Returned(
                          [scale_string |-> result.scale_string,
                           scale_factor |-> result.scale_factor,
                           pixels_per_meter |-> ppm.value,
                           detection_method |-> "text_scale",
                           confidence |-> result.confidence,
                           source_page |-> page_number,
                           render_dpi |-> page.dpi,
                           user_reference_px |-> None, user_reference_m |-> None,
                           is_active |-> TRUE])

\* The early-return test with > in place of >=.
IsHighConfidenceStrict(result) == result.confidence > 90

\* result.confidence >= 0.9
IsHighConfidence(result) == result.confidence >= 90

\* for page_num in search_pages: skip pages the document lacks, return at once
\* on confidence >= 0.9, else remember the first result of highest confidence.
RECURSIVE DocumentLoop(_, _, _, _)
DocumentLoop(pages, search_pages, k, best) ==
    IF k > Len(search_pages)
    THEN IF best # None THEN Returned(best) ELSE Returned(NoScaleContext(1, 150))
    ELSE LET page_num == search_pages[k]
         IN  IF page_num \notin 1..Len(pages)
             THEN DocumentLoop(pages, search_pages, k + 1, best)
             ELSE LET result == detect_scale_from_page(page_num, pages[page_num])
                  IN  IF result.raised THEN result
                      ELSE IF IsHighConfidence(result.value) THEN result
                      ELSE IF result.value.confidence >
                                  (IF best = None THEN 0 ELSE best.confidence)
                           THEN DocumentLoop(pages, search_pages, k + 1, result.value)
                           ELSE DocumentLoop(pages, search_pages, k + 1, best)

\* search_pages is [given |-> FALSE] for None (search every page), else
\* [given |-> TRUE, list |-> the pages to search].
detect_scale_from_document(pages, search_pages) ==
    DocumentLoop(pages,
                 IF ~search_pages.given THEN [i \in 1..Len(pages) |-> i]
                 ELSE search_pages.list,
                 1, None)

SearchPages ==
    {[given |-> FALSE, list |-> <<>>]} \cup
        [given : {TRUE}, list : SeqsUpTo(1..(MaxPages + 1), 2)]

\* COMMON_SCALES, in the order of the dictionary.
COMMON_SCALES == <<1, 2, 5, 10, 20, 25, 50, 100, 200, 250, 500, 1000>>

RECURSIVE Gcd(_, _)
Gcd(a, b) == IF b = 0 THEN a ELSE Gcd(b, a % b)

\* n / d in lowest terms, for d > 0.
Reduced(n, d) ==
    LET g == Gcd(Abs(n), d) IN Frac(n \div g, d \div g)

\* abs(pixels_per_meter - expected) / expected < 0.05 for the scale 1:sf at a
\* positive dpi, with expected = 39.3701 * dpi / sf.
WithinFivePercent(ppm, sf, dpi) ==
    LET x == ppm.num * 10000 * sf
        y == INCHES_PER_METER_E4 * dpi * ppm.den
    IN  Abs(x - y) <= (y - 1) \div 20

RECURSIVE InferLoop(_, _, _)
InferLoop(ppm, dpi, k) ==
    IF k > Len(COMMON_SCALES) THEN None
    ELSE IF WithinFivePercent(ppm, COMMON_SCALES[k], dpi)
         THEN [ratio |-> COMMON_SCALES[k]]
         ELSE InferLoop(ppm, dpi, k + 1)

\* expected_ppm is 0.0 at dpi = 0 (the division raises) and negative at a
\* negative dpi (the quotient is <= 0 < 0.05, so the first scale is returned).
infer_scale_string(ppm, dpi) ==
    IF dpi = 0 THEN Raised("ZeroDivisionError")
    ELSE IF dpi < 0 THEN Returned([ratio |-> COMMON_SCALES[1]])
    ELSE Returned(InferLoop(ppm, dpi, 1))

\* pixel_distance is a whole number of pixels, real_distance_meters a fraction;
\* page_info is None or carries the dpi.
compute_scale_from_points(pixel_distance, real_distance_meters, page_number, page_info) ==
    IF pixel_distance <= 0 THEN Raised("ValueError")
    ELSE IF ~IsPositive(real_distance_meters) THEN Raised("ValueError")
    ELSE LET pixels_per_meter ==
                 Reduced(pixel_distance * real_distance_meters.den,
                         real_distance_meters.num)
             dpi == IF page_info = None THEN 150 ELSE page_info.dpi
             scale_string == infer_scale_string(pixels_per_meter, dpi)
         IN  IF scale_string.raised THEN scale_string
             ELSE Returned(
                 [scale_string |-> scale_string.value,
                  scale_factor |-> IF scale_string.value = None THEN None
                                   ELSE scale_string.value.ratio,
                  pixels_per_meter |-> pixels_per_meter,
                  detection_method |-> "user_calibration",
                  confidence |-> 100,
                  source_page |-> page_number,
                  render_dpi |-> dpi,
                  user_reference_px |-> Frac(pixel_distance, 1),
                  user_reference_m |-> real_distance_meters,
                  is_active |-> TRUE])

\* Render resolutions a PageInfo can carry: the field is an unchecked int.
DpiValues == {-72, 0, 150}

Pages == [extract_fails : {FALSE}, text : PageTexts, dpi : DpiValues]
             \cup [extract_fails : {TRUE}, text : {<<>>}, dpi : DpiValues]

\* Pages of a document: load_plan_document gives every page the same dpi.
ShortTexts ==
    SeqsUpTo([kw : {MassstabEszett, ScaleWord, PrefixM, NoWord}, den : {0, 100}], 1)

DocumentPages(dpi) ==
    SeqsUpTo([extract_fails : {FALSE}, text : ShortTexts, dpi : {dpi}]
                 \cup [extract_fails : {TRUE}, text : {<<>>}, dpi : {dpi}], MaxPages)

PixelDistances == {-5, 0, 59, 90}
RealDistances == {Frac(-1, 1), Frac(0, 1), Frac(1, 1), Frac(1, 2)}
PageInfos == {None} \cup [dpi : DpiValues]

(***************************************************************************)
(* Conversions between pixels and real units.                              *)
(***************************************************************************)
\* a / b for b.num # 0, in lowest terms.
FracDiv(a, b) ==
    LET n == a.num * b.den
        d == a.den * b.num
    IN  IF d < 0 THEN Reduced(-n, -d) ELSE Reduced(n, d)

FracMul(a, b) == Reduced(a.num * b.num, a.den * b.den)

\* ScaleContext.px_to_meters: ValueError if pixels_per_meter is None or == 0.
px_to_meters(pixels_per_meter, px) ==
    IF pixels_per_meter = None THEN Raised("ValueError")
    ELSE IF pixels_per_meter.num = 0 THEN Raised("ValueError")
    ELSE Returned(FracDiv(px, pixels_per_meter))

\* ScaleContext.meters_to_px: ValueError only if pixels_per_meter is None.
meters_to_px(pixels_per_meter, meters) ==
    IF pixels_per_meter = None THEN Raised("ValueError")
    ELSE Returned(FracMul(meters, pixels_per_meter))

\* ScaleContext.has_scale
has_scale(pixels_per_meter) == pixels_per_meter # None /\ pixels_per_meter.num > 0

\* The largest r in lo..hi with r * r <= n, by bisection.
RECURSIVE SqrtBetween(_, _, _)
SqrtBetween(n, lo, hi) ==
    IF lo >= hi THEN lo
    ELSE LET mid == (lo + hi + 1) \div 2
         IN  IF mid * mid <= n THEN SqrtBetween(n, mid, hi)
             ELSE SqrtBetween(n, lo, mid - 1)

\* math.sqrt on the perfect squares the bounded inputs produce.
ISqrt(n) == CHOOSE r \in {SqrtBetween(n, 0, Min2(n, 46340))} : r * r = n

\* math.sqrt(dx ** 2 + dy ** 2), exact: the root of a square is taken
\* directly.
Hypot(dx, dy) ==
    IF dy = 0 THEN Abs(dx) ELSE IF dx = 0 THEN Abs(dy) ELSE ISqrt(Sq(dx) + Sq(dy))

\* Polygon vertices are <<x, y>> pairs; i + 1 wraps around to close the polygon.
NextIndex(i, n) == IF i = n THEN 1 ELSE i + 1

RECURSIVE ShoelaceSum(_, _)
ShoelaceSum(pts, i) ==
    IF i > Len(pts) THEN 0
    ELSE LET j == NextIndex(i, Len(pts))
         IN  pts[i][1] * pts[j][2] - pts[j][1] * pts[i][2] + ShoelaceSum(pts, i + 1)

\* The signed sum halved, without the absolute value.
shoelace_area_signed(polygon_points) ==
    IF Len(polygon_points) < 3 THEN Raised("ValueError")
    ELSE Returned(Reduced(ShoelaceSum(polygon_points, 1), 2))

\* abs(area) / 2.0; ValueError below 3 points.
shoelace_area_pixels(polygon_points) ==
    IF Len(polygon_points) < 3 THEN Raised("ValueError")
    ELSE Returned(Reduced(Abs(ShoelaceSum(polygon_points, 1)), 2))

RECURSIVE PerimeterSum(_, _)
PerimeterSum(pts, i) ==
    IF i > Len(pts) THEN 0
    ELSE LET j == NextIndex(i, Len(pts))
         IN  ISqrt(Sq(pts[j][1] - pts[i][1]) + Sq(pts[j][2] - pts[i][2]))
                 + PerimeterSum(pts, i + 1)

\* ValueError below 2 points.
shoelace_perimeter_pixels(polygon_points) ==
    IF Len(polygon_points) < 2 THEN Raised("ValueError")
    ELSE Returned(Frac(PerimeterSum(polygon_points, 1), 1))

\* "pixels_per_meter <= 0" on None is a TypeError.
compute_sector_area_m2(polygon_points, pixels_per_meter) ==
    IF pixels_per_meter = None THEN Raised("TypeError")
    ELSE IF pixels_per_meter.num <= 0 THEN Raised("ValueError")
    ELSE LET area_pixels == shoelace_area_pixels(polygon_points)
         IN  IF area_pixels.raised THEN area_pixels
             ELSE Returned(FracDiv(area_pixels.value,
                                   FracMul(pixels_per_meter, pixels_per_meter)))

compute_sector_perimeter_m(polygon_points, pixels_per_meter) ==
    IF pixels_per_meter = None THEN Raised("TypeError")
    ELSE IF pixels_per_meter.num <= 0 THEN Raised("ValueError")
    ELSE LET perimeter_pixels == shoelace_perimeter_pixels(polygon_points)
         IN  IF perimeter_pixels.raised THEN perimeter_pixels
             ELSE Returned(FracDiv(perimeter_pixels.value, pixels_per_meter))

\* One edge (i, j) of the ray casting: (yi > y) != (yj > y) and
\* x < (xj - xi) * (y - yi) / (yj - yi) + xi, cleared of the division.
RayCrosses(x, y, pi, pj) ==
    /\ (pi[2] > y) # (pj[2] > y)
    /\ IF pj[2] - pi[2] > 0
       THEN (x - pi[1]) * (pj[2] - pi[2]) < (pj[1] - pi[1]) * (y - pi[2])
       ELSE (x - pi[1]) * (pj[2] - pi[2]) > (pj[1] - pi[1]) * (y - pi[2])

\* The ray casting without the closing edge from the last vertex to the first.
point_in_polygon_unclosed(x, y, polygon_points) ==
    LET n == Len(polygon_points)
    IN  IF n < 3 THEN FALSE
        ELSE Cardinality({i \in 2..n :
                 RayCrosses(x, y, polygon_points[i], polygon_points[i - 1])}) % 2 = 1

\* Even-odd rule: inside iff an odd number of edges is crossed; j starts at the
\* last vertex and follows i.
point_in_polygon(x, y, polygon_points) ==
    LET n == Len(polygon_points)
    IN  IF n < 3 THEN FALSE
        ELSE Cardinality({i \in 1..n :
                 RayCrosses(x, y, polygon_points[i],
                            polygon_points[IF i = 1 THEN n ELSE i - 1])}) % 2 = 1

\* The test that never asks for both endpoints.
segment_in_polygon_either(segment, polygon_points, require_both_endpoints) ==
    \/ point_in_polygon(segment.x1, segment.y1, polygon_points)
    \/ point_in_polygon(segment.x2, segment.y2, polygon_points)

segment_in_polygon(segment, polygon_points, require_both_endpoints) ==
    LET p1_inside == point_in_polygon(segment.x1, segment.y1, polygon_points)
        p2_inside == point_in_polygon(segment.x2, segment.y2, polygon_points)
    IN  IF require_both_endpoints THEN p1_inside /\ p2_inside
        ELSE p1_inside \/ p2_inside

\* LineSegment.length_px
length_px(segment) == Hypot(segment.x2 - segment.x1, segment.y2 - segment.y1)

\* round(x, 4) for x >= 0: to the nearest ten-thousandth, ties to even.  The
\* digits are taken two at a time by long division.
Round4(f) ==
    LET whole == f.num \div f.den
        r0 == f.num % f.den
        d1 == (r0 * 100) \div f.den
        r1 == (r0 * 100) % f.den
        d2 == (r1 * 100) \div f.den
        r == (r1 * 100) % f.den
        q == whole * 10000 + d1 * 100 + d2
        up == 2 * r > f.den \/ (2 * r = f.den /\ q % 2 = 1)
    IN  Reduced(IF up THEN q + 1 ELSE q, 10000)

RECURSIVE WallLengthLoop(_, _, _, _)
WallLengthLoop(wall_segments, sector, require_both_endpoints, i) ==
    IF i > Len(wall_segments) THEN [total_length_px |-> 0, segment_count |-> 0]
    ELSE LET rest == WallLengthLoop(wall_segments, sector, require_both_endpoints, i + 1)
             wall == wall_segments[i]
         IN  IF wall.page_number # sector.page_number THEN rest
             ELSE IF segment_in_polygon(wall, sector.polygon_points, require_both_endpoints)
                  THEN [total_length_px |-> rest.total_length_px + length_px(wall),
                        segment_count |-> rest.segment_count + 1]
                  ELSE rest

\* The MeasurementResult, reduced to value, unit and the counted segments;
\* both is require_both_endpoints.
compute_wall_length_in_sector_m(wall_segments, sector, pixels_per_meter, both) ==
    IF ~has_scale(pixels_per_meter) THEN Raised("ValueError")
    ELSE LET sums == WallLengthLoop(wall_segments, sector, both, 1)
         IN  Returned([value |-> Round4(FracDiv(Frac(sums.total_length_px, 1),
                                                pixels_per_meter)),
                       unit |-> "m",
                       segment_count |-> sums.segment_count,
                       page_number |-> sector.page_number])

\* The drywall area computed with the height test "wall_height_m < 0".
compute_drywall_area_zero_height(wall_segments, sector, pixels_per_meter, wall_height_m, both) ==
    IF wall_height_m.num < 0 THEN Raised("ValueError")
    ELSE LET wall_length_result ==
                 compute_wall_length_in_sector_m(wall_segments, sector, pixels_per_meter, both)
         IN  IF wall_length_result.raised THEN wall_length_result
             ELSE Returned([value |-> Round4(FracMul(wall_length_result.value.value,
                                                     wall_height_m)),
                            unit |-> "m2",
                            segment_count |-> wall_length_result.value.segment_count,
                            page_number |-> sector.page_number])

\* ValueError for wall_height_m <= 0 and from the wall length; the value is
\* round(total_wall_length_m * wall_height_m, 4), and segment_count is read
\* back from the assumptions of the wall length result.
compute_drywall_area_in_sector_m2(wall_segments, sector, pixels_per_meter, wall_height_m, both) ==
    IF wall_height_m.num <= 0 THEN Raised("ValueError")
    ELSE LET wall_length_result ==
                 compute_wall_length_in_sector_m(wall_segments, sector, pixels_per_meter, both)
         IN  IF wall_length_result.raised THEN wall_length_result
             ELSE Returned([value |-> Round4(FracMul(wall_length_result.value.value,
                                                     wall_height_m)),
                            unit |-> "m2",
                            segment_count |-> wall_length_result.value.segment_count,
                            page_number |-> sector.page_number])

\* pixels_per_meter of a ScaleContext handed to a conversion: the field is an
\* unchecked Optional[float].
PpmValues == {None, Frac(-10, 1), Frac(0, 1), Frac(10, 1), Frac(5, 2), Frac(3, 1)}

Lengths == {Frac(0, 1), Frac(8, 1), Frac(5, 2)}

\* No polygon, a degenerate one, the 4 x 4 square and the 3-4-5 triangle.
Polygons ==
    {<<>>, <<<<0, 0>>, <<4, 0>>>>,
     <<<<0, 0>>, <<4, 0>>, <<4, 4>>, <<0, 4>>>>,
     <<<<0, 0>>, <<4, 0>>, <<0, 3>>>>}

\* Axis-parallel wall segments on page 1 or 2: both ends inside the square,
\* one end inside, no end inside.
WallSegments ==
    {[x1 |-> e[1], y1 |-> e[2], x2 |-> e[3], y2 |-> e[4], page_number |-> pg] :
        e \in {<<1, 1, 3, 1>>, <<1, 1, 1, 2>>, <<1, 1, 5, 1>>, <<5, 1, 5, 5>>},
        pg \in 1..2}

Sectors == [page_number : {1}, polygon_points : Polygons]

\* wall_height_m: negative, zero, 2.6 m.
WallHeights == {Frac(-1, 1), Frac(0, 1), Frac(13, 5)}

\* The 100 x 100 square sector and the wall from (10, 50) to (90, 50).
SquareSector ==
    [page_number |-> 1,
     polygon_points |-> <<<<0, 0>>, <<100, 0>>, <<100, 100>>, <<0, 100>>>>]

SquareWall == [x1 |-> 10, y1 |-> 50, x2 |-> 90, y2 |-> 50, page_number |-> 1]

(***************************************************************************)
(* Segments and polygons in the plane (vector_measurement.py,              *)
(* measurement_engine.py).  Coordinates are whole pixels, on which the     *)
(* floating-point sums and products of the code are exact.                 *)
(***************************************************************************)
\* math.degrees(math.atan2(dy, dx)), kept exact as the direction (dy, dx) in
\* lowest terms: two angles in (-180, 180] are equal iff their directions are
\* equal.  atan2(0, 0) is 0, the direction of the positive x axis.
Atan2Degrees(dy, dx) ==
    IF dy = 0 /\ dx = 0 THEN [dy |-> 0, dx |-> 1]
    ELSE LET g == Gcd(Abs(dy), Abs(dx)) IN [dy |-> dy \div g, dx |-> dx \div g]

\* angle_deg < 0: the direction points below the x axis.
IsNegativeAngle(angle_deg) == angle_deg.dy < 0

\* angle_deg + 180 for an angle in (-180, 0): the opposite direction.
AddHalfTurn(angle_deg) == [dy |-> -angle_deg.dy, dx |-> -angle_deg.dx]

\* LineSegment.angle_degrees
angle_degrees(segment) ==
    LET angle_deg == Atan2Degrees(segment.y2 - segment.y1, segment.x2 - segment.x1)
    IN  IF IsNegativeAngle(angle_deg) THEN AddHalfTurn(angle_deg) ELSE angle_deg

GridPoints == (0..MaxPolyCoord) \X (0..MaxPolyCoord)

LineSegments ==
    {[x1 |-> a[1], y1 |-> a[2], x2 |-> b[1], y2 |-> b[2], page_number |-> 1] :
        a \in GridPoints, b \in GridPoints}

\* Vertex lists of 0 to 4 grid points.
VertexLists == SeqsUpTo(GridPoints, 4)

RECURSIVE SumCoord(_, _, _)
SumCoord(pts, c, i) == IF i > Len(pts) THEN 0 ELSE pts[i][c] + SumCoord(pts, c, i + 1)

\* The polygon enlarged k times, so that the mean of its vertices is a grid
\* point.
Scaled(pts, k) == [i \in 1..Len(pts) |-> <<k * pts[i][1], k * pts[i][2]>>]

\* Points a caller asks about: the mean of the vertices of the polygon, and a
\* point beyond its bounding box.
QueryPoints(base) ==
    {<<SumCoord(base, 1, 1), SumCoord(base, 2, 1)>>,
     <<4 * MaxPolyCoord + 1, 4 * MaxPolyCoord + 1>>}

(***************************************************************************)
(* Object detection on a page image (cv_pipeline.py).  Class names are     *)
(* sequences of characters.                                                *)
(***************************************************************************)
UpperCase == <<"A", "B", "C", "D", "E", "F", "G", "H", "I", "J", "K", "L", "M", "N", "O", "P", "Q", "R", "S", "T", "U", "V", "W", "X", "Y", "Z">>
LowerCase == <<"a", "b", "c", "d", "e", "f", "g", "h", "i", "j", "k", "l", "m", "n", "o", "p", "q", "r", "s", "t", "u", "v", "w", "x", "y", "z">>

\* A member of the ObjectType enum, by its value.
ObjectType(v) == [value |-> v]

\* str.lower() on one character.
LowerChar(ch) ==
    IF \E i \in 1..26 : UpperCase[i] = ch
    THEN LowerCase[CHOOSE i \in 1..26 : UpperCase[i] = ch]
    ELSE ch

\* str.lower()
Lower(class_name) == [i \in 1..Len(class_name) |-> LowerChar(class_name[i])]

\* The mapping dictionary: <<key, value of the ObjectType>>.
YoloClassMapping ==
    {<<<<"d", "o", "o", "r">>, ObjectType("door")>>,
     <<<<"s", "l", "i", "d", "i", "n", "g", " ", "d", "o", "o", "r">>, ObjectType("door")>>,
     <<<<"w", "i", "n", "d", "o", "w">>, ObjectType("window")>>,
     <<<<"c", "u", "r", "t", "a", "i", "n", " ", "w", "a", "l", "l">>, ObjectType("window")>>,
     <<<<"w", "a", "l", "l">>, ObjectType("wall")>>,
     <<<<"c", "o", "l", "u", "m", "n">>, ObjectType("column")>>,
     <<<<"s", "t", "a", "i", "r", " ", "c", "a", "s", "e">>, ObjectType("stairs")>>,
     <<<<"d", "i", "m", "e", "n", "s", "i", "o", "n">>, ObjectType("dimension_line")>>,
     <<<<"r", "a", "i", "l", "i", "n", "g">>, ObjectType("fixture")>>,
     <<<<"s", "t", "a", "i", "r", "s">>, ObjectType("stairs")>>,
     <<<<"s", "t", "a", "i", "r", "c", "a", "s", "e">>, ObjectType("stairs")>>,
     <<<<"r", "o", "o", "m">>, ObjectType("room")>>,
     <<<<"t", "o", "i", "l", "e", "t">>, ObjectType("fixture")>>,
     <<<<"s", "i", "n", "k">>, ObjectType("fixture")>>,
     <<<<"b", "a", "t", "h", "t", "u", "b">>, ObjectType("fixture")>>,
     <<<<"s", "h", "o", "w", "e", "r">>, ObjectType("fixture")>>,
     <<<<"f", "i", "x", "t", "u", "r", "e">>, ObjectType("fixture")>>,
     <<<<"s", "c", "a", "l", "e">>, ObjectType("scale_annotation")>>,
     <<<<"e", "l", "e", "v", "a", "t", "o", "r">>, ObjectType("elevator")>>}

\* mapping.get(class_name.lower())
_map_yolo_class_to_object_type(class_name) ==
    LET key == Lower(class_name)
    IN  IF \E e \in YoloClassMapping : e[1] = key
        THEN (CHOOSE e \in YoloClassMapping : e[1] = key)[2]
        ELSE None

DetectionResult(objects, model_version, warnings) ==
    [objects |-> objects, model_version |-> model_version, warnings |-> warnings]

\* The loop over the boxes: a box whose class maps to nothing, or to a type
\* that was not asked for, is skipped.
RECURSIVE DetectedObjects(_, _, _)
DetectedObjects(boxes, object_types, i) ==
    IF i > Len(boxes) THEN <<>>
    ELSE LET obj_type == _map_yolo_class_to_object_type(boxes[i].cls_name)
             rest == DetectedObjects(boxes, object_types, i + 1)
         IN  IF obj_type = None THEN rest
             ELSE IF object_types.given /\ obj_type \notin object_types.list THEN rest
             ELSE <<[object_type |-> obj_type, confidence |-> boxes[i].conf,
                     yolo_class |-> boxes[i].cls_name]>> \o rest

\* run_object_detection_on_page: no image, no model or a failing inference give
\* no objects and a warning.
run_object_detection_on_page(world, object_types) ==
    IF ~world.image_exists
    THEN DetectionResult(<<>>, "none", <<"Image file not found">>)
    ELSE IF ~world.model_loaded
    THEN DetectionResult(<<>>, "none", <<"YOLO not configured">>)
    ELSE IF world.inference_fails
    THEN DetectionResult(<<>>, "error", <<"Detection failed">>)
    ELSE DetectionResult(DetectedObjects(world.boxes, object_types, 1), "model", <<>>)

\* Class names handed to the lookup.
ClassNames ==
    {<<"d", "o", "o", "r">>,
     <<"D", "O", "O", "R">>,
     <<"D", "o", "o", "r">>,
     <<"S", "l", "i", "d", "i", "n", "g", " ", "D", "o", "o", "r">>,
     <<"w", "i", "n", "d", "o", "w">>,
     <<"C", "u", "r", "t", "a", "i", "n", " ", "W", "a", "l", "l">>,
     <<"D", "i", "m", "e", "n", "s", "i", "o", "n">>,
     <<"d", "i", "m", "e", "n", "s", "i", "o", "n", "_", "l", "i", "n", "e">>,
     <<"W", "a", "l", "l">>,
     <<"u", "n", "k", "n", "o", "w", "n", "_", "c", "l", "a", "s", "s">>,
     <<>>}

\* Boxes the model reports.
YoloBoxes == [cls_name : ClassNames, conf : {80}]

DetectionWorlds ==
    [image_exists : BOOLEAN, model_loaded : BOOLEAN, inference_fails : BOOLEAN,
     boxes : SeqsUpTo(YoloBoxes, MaxDetections)]

\* object_types: not given, doors only, doors and dimension lines.
ObjectTypeFilters ==
    {[given |-> FALSE, list |-> {}], [given |-> TRUE, list |-> {ObjectType("door")}],
     [given |-> TRUE, list |-> {ObjectType("door"), ObjectType("dimension_line")}]}

(***************************************************************************)
(* Door symbols of a page (vector_measurement.py).  world.arcs are the     *)
(* quarter circles _analyze_bezier_arc reports, already scaled to pixels,  *)
(* world.lines the line operators; all lie on one axis, so that every      *)
(* distance is a whole number of pixels.  Widths are in centimetres.       *)
(***************************************************************************)
\* math.sqrt((x - cx) ** 2 + (y - cy) ** 2)
Distance(x, y, cx, cy) == Hypot(x - cx, y - cy)

\* min_radius_px and max_radius_px: from the widths when pixels_per_meter is
\* truthy, else the pixel thresholds 20 and 200.
RadiusLimits(min_door_width_cm, max_door_width_cm, pixels_per_meter) ==
    IF pixels_per_meter # None /\ pixels_per_meter.num # 0
    THEN [min |-> FracMul(Frac(min_door_width_cm, 100), pixels_per_meter),
          max |-> FracMul(Frac(max_door_width_cm, 100), pixels_per_meter)]
    ELSE [min |-> Frac(20, 1), max |-> Frac(200, 1)]

\* min_radius_px <= px <= max_radius_px
InRadiusLimits(px, limits) ==
    /\ limits.min.num <= px * limits.min.den
    /\ px * limits.max.den <= limits.max.num

\* The arcs and the lines collected from the drawings, in page order.
CollectedArcs(world, limits) ==
    SelectSeq(world.arcs, LAMBDA arc : InRadiusLimits(arc.radius, limits))

CollectedLines(world, limits) ==
    SelectSeq(world.lines, LAMBDA line : InRadiusLimits(length_px(line), limits))

\* max_center_dist_ratio, max_length_diff_ratio, base_confidence (hundredths).
MatchSettings(is_roof_plan) ==
    IF is_roof_plan
    THEN [max_center_dist_ratio |-> Frac(1, 4), max_length_diff_ratio |-> Frac(1, 5),
          base_confidence |-> 70]
    ELSE [max_center_dist_ratio |-> Frac(3, 5), max_length_diff_ratio |-> Frac(3, 10),
          base_confidence |-> 85]

\* min(dist_to_p1, dist_to_p2)
MinEndpointDistance(line, arc) ==
    Min2(Distance(line.x1, line.y1, arc.center_x, arc.center_y),
         Distance(line.x2, line.y2, arc.center_x, arc.center_y))

\* min_dist < radius * max_center_dist_ratio and length_diff < max_length_diff_ratio,
\* with length_diff = abs(length_px - radius) / radius.
LineQualifies(line, arc, settings) ==
    /\ MinEndpointDistance(line, arc) * settings.max_center_dist_ratio.den
           < arc.radius * settings.max_center_dist_ratio.num
    /\ Abs(length_px(line) - arc.radius) * settings.max_length_diff_ratio.den
           < arc.radius * settings.max_length_diff_ratio.num

\* score = min_dist + length_diff * radius
LineScore(line, arc) == MinEndpointDistance(line, arc) + Abs(length_px(line) - arc.radius)

\* The inner loop over the lines: index of the unused qualifying line of the
\* least score, the first such line on a tie; 0 for no line.
RECURSIVE BestLineLoop(_, _, _, _, _, _)
BestLineLoop(lines, arc, settings, used_lines, j, best) ==
    IF j > Len(lines) THEN best
    ELSE IF j \in used_lines THEN BestLineLoop(lines, arc, settings, used_lines, j + 1, best)
    ELSE IF /\ LineQualifies(lines[j], arc, settings)
            /\ (best = 0 \/ LineScore(lines[j], arc) < LineScore(lines[best], arc))
         THEN BestLineLoop(lines, arc, settings, used_lines, j + 1, j)
         ELSE BestLineLoop(lines, arc, settings, used_lines, j + 1, best)

\* The variant of the inner loop that never skips a used line.
BestLineAmongAll(lines, arc, settings, used_lines) ==
    BestLineLoop(lines, arc, settings, {}, 1, 0)

\* The inner loop, started.
BestLine(lines, arc, settings, used_lines) ==
    BestLineLoop(lines, arc, settings, used_lines, 1, 0)

\* The outer loop over the arcs: one DoorSymbol per arc with a matching line.
RECURSIVE DoorMatchLoop(_, _, _, _, _)
DoorMatchLoop(arcs, lines, settings, used_lines, i) ==
    IF i > Len(arcs) THEN <<>>
    ELSE LET best_line_idx == BestLine(lines, arcs[i], settings, used_lines)
         IN  IF best_line_idx = 0
             THEN DoorMatchLoop(arcs, lines, settings, used_lines, i + 1)
             ELSE <<[arc_center_x |-> arcs[i].center_x, arc_center_y |-> arcs[i].center_y,
                     arc_radius_px |-> arcs[i].radius,
                     leaf_line |-> lines[best_line_idx],
                     confidence |-> settings.base_confidence,
                     arc_index |-> i - 1, line_index |-> best_line_idx - 1,
                     width_m |-> None]>>
                  \o DoorMatchLoop(arcs, lines, settings, used_lines \cup {best_line_idx},
                                   i + 1)

\* extract_door_symbols_from_page: the exceptions of its first steps, else the
\* doors matched from the collected arcs and lines.
extract_door_symbols_from_page(world, min_door_width_cm, max_door_width_cm, pixels_per_meter) ==
    IF world.fault = "fitz_unavailable" THEN Raised("ImportError")
    ELSE IF world.fault = "path_missing" THEN Raised("FileNotFoundError")
    ELSE IF world.fault = "invalid_page" THEN Raised("ValueError")
    ELSE LET limits == RadiusLimits(min_door_width_cm, max_door_width_cm, pixels_per_meter)
         IN  Returned(DoorMatchLoop(CollectedArcs(world, limits),
                                    CollectedLines(world, limits),
                                    MatchSettings(world.is_roof_plan), {}, 1))

\* measure_doors_on_page with the minimum width 0.60 m.
measure_doors_from_60_cm(world, pixels_per_meter, min_door_width_cm, max_door_width_cm) ==
    LET doors == extract_door_symbols_from_page(world, 60, max_door_width_cm,
                                                pixels_per_meter)
    IN  IF doors.raised THEN doors
        ELSE Returned([i \in 1..Len(doors.value) |->
                 [doors.value[i] EXCEPT
                     !.width_m = FracDiv(Frac(doors.value[i].arc_radius_px, 1),
                                         pixels_per_meter)]])

\* measure_doors_on_page: width_m = arc_radius_px / pixels_per_meter for every
\* door extracted.
measure_doors_on_page(world, pixels_per_meter, min_door_width_cm, max_door_width_cm) ==
    LET doors == extract_door_symbols_from_page(world, min_door_width_cm,
                                                max_door_width_cm, pixels_per_meter)
    IN  IF doors.raised THEN doors
        ELSE Returned([i \in 1..Len(doors.value) |->
                 [doors.value[i] EXCEPT
                     !.width_m = FracDiv(Frac(doors.value[i].arc_radius_px, 1),
                                         pixels_per_meter)]])

\* Defaults of measure_doors_on_page, in centimetres.
MEASURE_MIN_DOOR_WIDTH_CM == 62
MEASURE_MAX_DOOR_WIDTH_CM == 200

\* Quarter circles with center on the axis.
DoorArcs == [center_x : {0}, center_y : {0}, radius : {61, 62, 100}]

\* Line operators on the axis, by start and length.
DoorLines ==
    {[x1 |-> e[1], y1 |-> 0, x2 |-> e[1] + e[2], y2 |-> 0, page_number |-> 1] :
        e \in {<<0, 61>>, <<0, 62>>, <<30, 100>>}}

DoorPageFaults == {"fitz_unavailable", "path_missing", "invalid_page"}

DoorWorlds ==
    [fault : DoorPageFaults, is_roof_plan : {FALSE}, arcs : {<<>>}, lines : {<<>>}]
        \cup [fault : {"none"}, is_roof_plan : BOOLEAN,
              arcs : SeqsUpTo(DoorArcs, MaxArcs), lines : SeqsUpTo(DoorLines, MaxLeafLines)]

\* pixels_per_meter handed to the measurement.
DoorPpm == {Frac(100, 1), Frac(50, 1), Frac(40, 1)}

\* min_door_width_m handed to the extraction, in centimetres.
DoorMinWidths == {50, 62}

(***************************************************************************)
(* Gaps between collinear wall segments (wall_opening_detector.py).  A line *)
(* is <<x1, y1, x2, y2>>.  Positions and centers are kept doubled, so that  *)
(* the averages of two integers stay integers.                              *)
(***************************************************************************)
\* sorted(items, key=lambda t: t[0]): stable, by the first component.
InsertByFirst(sorted, item) ==
    LET before == SelectSeq(sorted, LAMBDA t : t[1] <= item[1])
        after == SelectSeq(sorted, LAMBDA t : t[1] > item[1])
    IN  before \o <<item>> \o after

RECURSIVE SortByFirst(_)
SortByFirst(items) ==
    IF items = <<>> THEN <<>>
    ELSE InsertByFirst(SortByFirst(SubSeq(items, 1, Len(items) - 1)), items[Len(items)])

\* position_key, doubled: y1 + y3 of a horizontal line, x0 + x2 of a vertical.
position_key(line, orientation) ==
    IF orientation = "horizontal" THEN line[2] + line[4] ELSE line[1] + line[3]

\* extent_key: the range of the line along its direction.
extent_key(line, orientation) ==
    IF orientation = "horizontal"
    THEN <<Min2(line[1], line[3]), Max2(line[1], line[3])>>
    ELSE <<Min2(line[2], line[4]), Max2(line[2], line[4])>>

\* The groups of at least two lines whose position is within the tolerance of
\* 20 px of the position of the first line of the group.
RECURSIVE GroupLoop(_, _, _, _, _)
GroupLoop(lines_sorted, orientation, current_group, groups, i) ==
    IF i > Len(lines_sorted)
    THEN IF Len(current_group) >= 2 THEN Append(groups, current_group) ELSE groups
    ELSE LET line == lines_sorted[i]
             current_pos == position_key(current_group[1], orientation)
         IN  IF Abs(position_key(line, orientation) - current_pos) <= 2 * 20
             THEN GroupLoop(lines_sorted, orientation, Append(current_group, line),
                            groups, i + 1)
             ELSE GroupLoop(lines_sorted, orientation, <<line>>,
                            IF Len(current_group) >= 2 THEN Append(groups, current_group)
                            ELSE groups, i + 1)

\* The openings of one group: a gap between two segments that follow one
\* another in the order of their starts, of a size within min_gap..max_gap and
\* with both segments at least min_context long.
GroupGaps(group, orientation, min_gap, max_gap, min_context) ==
    LET segments == SortByFirst([k \in 1..Len(group) |-> extent_key(group[k], orientation)])
        gap(i) == segments[i + 1][1] - segments[i][2]
        valid == {i \in 1..(Len(segments) - 1) :
                     /\ min_gap <= gap(i) /\ gap(i) <= max_gap
                     /\ segments[i][2] - segments[i][1] >= min_context
                     /\ segments[i + 1][2] - segments[i + 1][1] >= min_context}
        opening(i) ==
            LET gap_center == 2 * segments[i][2] + gap(i)
                line_pos == position_key(group[1], orientation)
            IN  [center_x |-> IF orientation = "horizontal" THEN gap_center ELSE line_pos,
                 center_y |-> IF orientation = "horizontal" THEN line_pos ELSE gap_center,
                 width_px |-> gap(i),
                 angle_degrees |-> IF orientation = "horizontal" THEN 0 ELSE 90]
    IN  [n \in 1..Cardinality(valid) |->
            opening(CHOOSE i \in valid : Cardinality({m \in valid : m < i}) = n - 1)]

RECURSIVE GapsOfGroups(_, _, _, _, _, _)
GapsOfGroups(groups, orientation, min_gap, max_gap, min_context, g) ==
    IF g > Len(groups) THEN <<>>
    ELSE GroupGaps(groups[g], orientation, min_gap, max_gap, min_context)
             \o GapsOfGroups(groups, orientation, min_gap, max_gap, min_context, g + 1)

\* _find_collinear_gaps: center_x and center_y of the openings are doubled.
_find_collinear_gaps(lines, orientation, min_gap, max_gap, min_context) ==
    IF Len(lines) < 2 THEN <<>>
    ELSE LET keyed == SortByFirst([k \in 1..Len(lines) |->
                                      <<position_key(lines[k], orientation), lines[k]>>])
             lines_sorted == [k \in 1..Len(keyed) |-> keyed[k][2]]
             groups == GroupLoop(lines_sorted, orientation, <<lines_sorted[1]>>, <<>>, 2)
         IN  GapsOfGroups(groups, orientation, min_gap, max_gap, min_context, 1)

\* Wall segments along a row: by start, end and row, either way round.
GapExtents ==
    {<<0, 100, 0>>, <<100, 0, 0>>, <<10, 30, 0>>, <<50, 70, 0>>, <<120, 140, 5>>,
     <<50, 70, 25>>}

\* The lines of an orientation: along x in row y, or along y in column x.
GapLines(orientation) ==
    {IF orientation = "horizontal" THEN <<e[1], e[3], e[2], e[3]>>
     ELSE <<e[3], e[1], e[3], e[2]>> : e \in GapExtents}

(***************************************************************************)
(* Window symbols of a page (vector_measurement.py).  The lines drawn are   *)
(* parallel to the axes with centers on whole pixels, so an angle is one of *)
(* the four axis directions, cos and sin are 0, 1 or -1 and every distance  *)
(* compared is compared by its square.                                      *)
(***************************************************************************)
\* min_length_px, max_length_px, min_spacing_px, max_spacing_px and
\* door_exclusion_px: from pixels_per_meter when it is truthy (the minimum
\* length at least 0.65 m), else the pixel thresholds.
WindowLimits(min_window_width_cm, max_window_width_cm, pixels_per_meter) ==
    IF pixels_per_meter # None /\ pixels_per_meter.num # 0
    THEN [length |-> [min |-> FracMul(Frac(Max2(min_window_width_cm, 65), 100),
                                      pixels_per_meter),
                      max |-> FracMul(Frac(max_window_width_cm, 100), pixels_per_meter)],
          spacing |-> [min |-> FracMul(Frac(8, 100), pixels_per_meter),
                       max |-> FracMul(Frac(12, 100), pixels_per_meter)],
          door_exclusion_px |-> FracMul(Frac(80, 100), pixels_per_meter)]
    ELSE [length |-> [min |-> Frac(40, 1), max |-> Frac(300, 1)],
          spacing |-> [min |-> Frac(8, 1), max |-> Frac(12, 1)],
          door_exclusion_px |-> Frac(80, 1)]

\* sqrt((x - cx)^2 + (y - cy)^2) < limit, for a limit >= 0.
WithinDistance(x, y, cx, cy, limit) ==
    (Sq(x - cx) + Sq(y - cy)) * Sq(limit.den) < Sq(limit.num)

\* near_door: the center of the line is closer than door_exclusion_px to one
\* of the door centers.
NearDoor(cx, cy, door_centers, door_exclusion_px) ==
    \E k \in 1..Len(door_centers) :
        WithinDistance(cx, cy, door_centers[k][1], door_centers[k][2], door_exclusion_px)

\* The dict kept for a line drawn.
WindowLine(line) ==
    [x1 |-> line.x1, y1 |-> line.y1, x2 |-> line.x2, y2 |-> line.y2,
     length |-> length_px(line),
     angle |-> Atan2Degrees(line.y2 - line.y1, line.x2 - line.x1),
     center |-> <<(line.x1 + line.x2) \div 2, (line.y1 + line.y2) \div 2>>]

\* The lines collected: of a window's length and not near a door.
CollectedWindowLines(world, door_centers, limits) ==
    SelectSeq([k \in 1..Len(world.lines) |-> WindowLine(world.lines[k])],
              LAMBDA line :
                  /\ InRadiusLimits(line.length, limits.length)
                  /\ ~NearDoor(line.center[1], line.center[2], door_centers,
                               limits.door_exclusion_px))

\* abs(dx * cos(angle + pi/2) + dy * sin(angle + pi/2))
PerpDist(line1, line2) ==
    Abs((line2.center[2] - line1.center[2]) * line1.angle.dx
            - (line2.center[1] - line1.center[1]) * line1.angle.dy)

\* abs(dx * cos(angle) + dy * sin(angle))
ParaDist(line1, line2) ==
    Abs((line2.center[1] - line1.center[1]) * line1.angle.dx
            + (line2.center[2] - line1.center[2]) * line1.angle.dy)

\* The tests of a pair of lines up to the angle filter: parallel, lengths
\* within 20 %, spacing of a window frame, centers aligned within 20 % of the
\* length, roughly horizontal or vertical.
IsWindowCandidate(line1, line2, limits) ==
    /\ (line1.angle = line2.angle \/ line1.angle = AddHalfTurn(line2.angle))
    /\ ~(Min2(line1.length, line2.length) * 10 < 8 * Max2(line1.length, line2.length))
    /\ InRadiusLimits(PerpDist(line1, line2), limits.spacing)
    /\ ~(ParaDist(line1, line2) * 10 > line1.length * 2)
    /\ (line1.angle.dy = 0 \/ line1.angle.dx = 0)

\* The WindowSymbol of a pair of lines.
WindowOf(line1, line2, i, j, pixels_per_meter) ==
    [center |-> <<(line1.center[1] + line2.center[1]) \div 2,
                  (line1.center[2] + line2.center[2]) \div 2>>,
     width_px |-> Frac(line1.length + line2.length, 2),
     height_px |-> PerpDist(line1, line2),
     line1 |-> i, line2 |-> j, confidence |-> 70]

\* too_close: a window detected before is closer than 30 % of the width.
TooClose(window, windows) ==
    \E k \in 1..Len(windows) :
        WithinDistance(window.center[1], window.center[2],
                   windows[k].center[1], windows[k].center[2],
                   Frac(3 * window.width_px.num, 10 * window.width_px.den))

\* The loops over the pairs of lines: line i takes the first free line j > i
\* that makes a window not too close to one detected before.
RECURSIVE WindowPairLoop(_, _, _, _, _, _, _)
WindowPairLoop(lines, limits, pixels_per_meter, used, windows, i, j) ==
    IF i > Len(lines) THEN windows
    ELSE IF i \in used \/ j > Len(lines)
    THEN WindowPairLoop(lines, limits, pixels_per_meter, used, windows, i + 1, 1)
    ELSE IF j <= i \/ j \in used \/ ~IsWindowCandidate(lines[i], lines[j], limits)
    THEN WindowPairLoop(lines, limits, pixels_per_meter, used, windows, i, j + 1)
    ELSE LET window == WindowOf(lines[i], lines[j], i - 1, j - 1, pixels_per_meter)
         IN  IF TooClose(window, windows)
             THEN WindowPairLoop(lines, limits, pixels_per_meter, used, windows, i, j + 1)
             ELSE WindowPairLoop(lines, limits, pixels_per_meter, used \cup {i, j},
                                 Append(windows, window), i + 1, 1)

\* extract_window_symbols_from_page: the exceptions of its first steps, else
\* the windows paired from the lines collected; door_centers None is no door.
extract_window_symbols_from_page(world, min_cm, max_cm, pixels_per_meter, door_centers) ==
    IF world.fault = "fitz_unavailable" THEN Raised("ImportError")
    ELSE IF world.fault = "path_missing" THEN Raised("FileNotFoundError")
    ELSE IF world.fault = "invalid_page" THEN Raised("ValueError")
    ELSE LET limits == WindowLimits(min_cm, max_cm, pixels_per_meter)
             centers == IF door_centers.given THEN door_centers.list ELSE <<>>
         IN  Returned(WindowPairLoop(CollectedWindowLines(world, centers, limits),
                                     limits, pixels_per_meter, {}, <<>>, 1, 1))

\* Lines parallel to the axes, by first endpoint, direction and length.
WindowLineShapes ==
    {<<-50, 5, 1, 0, 120>>, <<50, -5, -1, 0, 120>>, <<-96, 71, 1, 0, 120>>,
     <<-36, 1, 0, 1, 120>>, <<-40, 15, 1, 0, 50>>}

WindowLines ==
    {[x1 |-> e[1], y1 |-> e[2], x2 |-> e[1] + e[3] * e[5], y2 |-> e[2] + e[4] * e[5],
      page_number |-> 1] : e \in WindowLineShapes}

WindowWorlds ==
    [fault : DoorPageFaults, lines : {<<>>}]
        \cup [fault : {"none"}, lines : SeqsUpTo(WindowLines, MaxWindowLines)]

\* door_centers: not given, or up to two centers.
DoorCenterLists ==
    {[given |-> FALSE, list |-> <<>>]}
        \cup {[given |-> TRUE, list |-> l] : l \in SeqsUpTo({<<-36, 71>>, <<300, 5>>}, 2)}

(***************************************************************************)
(* Drywall trade for one sector (gewerke.py).  What PyMuPDF and the file   *)
(* system do is an input of the run: world.fault names the step of the     *)
(* extraction that fails, world.lines are the line operators of the page.  *)
(***************************************************************************)
\* extract_line_segments_from_page: the exceptions of its steps, else one
\* LineSegment per line operator of at least min_length_px, on the page asked.
extract_line_segments_from_page(world, page_number, min_length_px) ==
    IF world.fault = "fitz_unavailable" THEN Raised("ImportError")
    ELSE IF world.fault = "path_missing" THEN Raised("FileNotFoundError")
    ELSE IF world.fault = "fitz_open" THEN Raised("FileDataError")
    ELSE IF world.fault = "invalid_page" THEN Raised("ValueError")
    ELSE IF world.fault = "get_drawings" THEN Raised("RuntimeError")
    ELSE Returned(SelectSeq([i \in 1..Len(world.lines) |->
                                [x1 |-> world.lines[i][1], y1 |-> world.lines[i][2],
                                 x2 |-> world.lines[i][3], y2 |-> world.lines[i][4],
                                 page_number |-> page_number]],
                            LAMBDA segment : length_px(segment) >= min_length_px))

\* extract_wall_segments_from_page without the angle filter: every line is a
\* wall.
extract_wall_segments_from_page(world, page_number, min_length_px) ==
    extract_line_segments_from_page(world, page_number, min_length_px)

DrywallGewerkResult(status, items, errors, warnings) ==
    [status |-> status, items |-> items, errors |-> errors, warnings |-> warnings]

\* The steps inside the try block: the exception of the first failing step,
\* else the result with its single item.
DrywallTryBlock(world, sector, pixels_per_meter, wall_height_m, min_segment_length_px) ==
    LET wall_segments ==
            extract_wall_segments_from_page(world, sector.page_number, min_segment_length_px)
    IN  IF wall_segments.raised THEN wall_segments
        ELSE LET warnings == IF wall_segments.value = <<>>
                             THEN <<"No wall segments found">> ELSE <<>>
                 wall_length_result ==
                     compute_wall_length_in_sector_m(wall_segments.value, sector,
                                                     pixels_per_meter, TRUE)
                 drywall_area_result ==
                     compute_drywall_area_in_sector_m2(wall_segments.value, sector,
                                                       pixels_per_meter, wall_height_m, TRUE)
             IN  IF wall_length_result.raised THEN wall_length_result
                 ELSE IF drywall_area_result.raised THEN drywall_area_result
                 ELSE Returned(DrywallGewerkResult("ok",
                          <<[page_number |-> sector.page_number,
                             wall_length_m |-> wall_length_result.value.value,
                             wall_height_m |-> wall_height_m,
                             drywall_area_m2 |-> drywall_area_result.value.value,
                             wall_segment_count |-> wall_length_result.value.segment_count]>>,
                          <<>>, warnings))

\* The function without its except clause: a failure inside the try block
\* leaves it as an exception.
run_drywall_gewerk_uncaught(world, sector, pixels_per_meter, wall_height_m, min_segment_length_px) ==
    IF wall_height_m.num <= 0
    THEN Returned(DrywallGewerkResult("error", <<>>, <<"wall_height_m must be positive">>, <<>>))
    ELSE IF ~has_scale(pixels_per_meter)
    THEN Returned(DrywallGewerkResult("error", <<>>,
                      <<"ScaleContext must have valid pixels_per_meter">>, <<>>))
    ELSE DrywallTryBlock(world, sector, pixels_per_meter, wall_height_m, min_segment_length_px)

\* run_drywall_gewerk_for_sector: input errors and every exception of the try
\* block become status "error" with one entry in errors.
run_drywall_gewerk_for_sector(world, sector, pixels_per_meter, wall_height_m, min_segment_length_px) ==
    IF wall_height_m.num <= 0
    THEN Returned(DrywallGewerkResult("error", <<>>, <<"wall_height_m must be positive">>, <<>>))
    ELSE IF ~has_scale(pixels_per_meter)
    THEN Returned(DrywallGewerkResult("error", <<>>,
                      <<"ScaleContext must have valid pixels_per_meter">>, <<>>))
    ELSE LET done == DrywallTryBlock(world, sector, pixels_per_meter, wall_height_m,
                                     min_segment_length_px)
         IN  IF done.raised
             THEN Returned(DrywallGewerkResult("error", <<>>, <<done.error>>, <<>>))
             ELSE done

ExtractionFaults ==
    {"none", "fitz_unavailable", "path_missing", "fitz_open", "invalid_page", "get_drawings"}

\* Line operators of the page as <<x1, y1, x2, y2>> in pixels.
PageLines ==
    {<<1, 1, 3, 1>>, <<1, 1, 1, 2>>, <<1, 1, 5, 1>>, <<5, 1, 5, 5>>, <<10, 50, 90, 50>>}

GewerkWorlds ==
    [fault : ExtractionFaults \ {"none"}, lines : {<<>>}]
        \cup [fault : {"none"}, lines : SeqsUpTo(PageLines, MaxWalls)]

MinSegmentLengths == {2, 5}

(***************************************************************************)
(* Door detection pipelines (wall_opening_detector.py, cv_pipeline.py).    *)
(*                                                                         *)
(* What the libraries and the filesystem do is an input of the run: the    *)
(* record "world" names the first step that fails (fault), whether         *)
(* os.remove fails, and what the image analysis reports.  A function       *)
(* returns its result together with the temporary files left on disk.      *)
(***************************************************************************)
\* The steps of rendering a page that can fail, in their order in the code;
\* at "pix_save" the temporary file has been created by mkstemp.
RenderFaults == {"fitz_open", "invalid_page", "get_pixmap", "mkstemp", "pix_save"}

\* tempfile.mkstemp: a path that names no existing file.
FreshPath(disk) == CHOOSE path \in 1..(Cardinality(disk) + 1) : path \notin disk

\* doc = fitz.open(...); try: ... mkstemp; pix.save(output_path); return
\* output_path; finally: doc.close()
RenderToTempFile(fault, disk) ==
    IF fault \in {"fitz_open", "invalid_page", "get_pixmap", "mkstemp"}
    THEN [raised |-> TRUE, output_path |-> 0, disk |-> disk]
    ELSE LET output_path == FreshPath(disk)
         IN  IF fault = "pix_save"
             THEN [raised |-> TRUE, output_path |-> 0, disk |-> disk \cup {output_path}]
             ELSE [raised |-> FALSE, output_path |-> output_path,
                   disk |-> disk \cup {output_path}]

CV2_AVAILABLE(world) == world.fault # "no_cv2"

FITZ_AVAILABLE(world) == world.fault # "no_fitz"

render_pdf_page_high_dpi(world, disk) ==
    IF ~FITZ_AVAILABLE(world) THEN [raised |-> TRUE, output_path |-> 0, disk |-> disk]
    ELSE RenderToTempFile(world.fault, disk)

\* "import fitz" and the existence of the PDF are the "fitz_open" step.
render_pdf_page_to_image(fault, disk) == RenderToTempFile(fault, disk)

\* os.remove(path): the file is gone unless the removal fails.
Remove(path, disk, remove_fails) == IF remove_fails THEN disk ELSE disk \ {path}

\* DIN 18101 door widths in millimetres.
StandardWidths == {625, 755, 885, 1010, 1135, 1260, 1385, 1510, 1760, 2010}

\* The comparison "min_deviation <= limit".
MinDeviationAtMost(width_m, limit_mm) ==
    \E std \in StandardWidths :
        Abs(1000 * width_m.num - std * width_m.den) <= limit_mm * width_m.den

\* min(abs(width_m - std)) < limit, limit in millimetres.
MinDeviationBelow(width_m, limit_mm) ==
    \E std \in StandardWidths :
        Abs(1000 * width_m.num - std * width_m.den) < limit_mm * width_m.den

\* min_mm / 1000 <= width_m <= max_mm / 1000
WidthInRange(width_m, min_mm, max_mm) ==
    /\ min_mm * width_m.den <= 1000 * width_m.num
    /\ 1000 * width_m.num <= max_mm * width_m.den

RECURSIVE ValidateLoop(_, _, _, _, _)
ValidateLoop(openings, pixels_per_meter, min_mm, max_mm, i) ==
    IF i > Len(openings) THEN <<>>
    ELSE LET opening == openings[i]
             width_m == FracDiv(Frac(opening.width_px, 1), pixels_per_meter)
             confidence == IF MinDeviationBelow(width_m, 50) THEN 90
                           ELSE IF MinDeviationBelow(width_m, 100) THEN 75
                           ELSE 60
             signal == IF MinDeviationBelow(width_m, 50) THEN "standard_width"
                       ELSE IF MinDeviationBelow(width_m, 100) THEN "near_standard_width"
                       ELSE "non_standard_width"
             rest == ValidateLoop(openings, pixels_per_meter, min_mm, max_mm, i + 1)
         IN  IF WidthInRange(width_m, min_mm, max_mm)
             THEN <<[opening EXCEPT !.width_m = width_m, !.is_door = TRUE,
                                    !.confidence = confidence,
                                    !.detection_signals = Append(@, signal)]>> \o rest
             ELSE rest

\* Door widths are in millimetres (0.60 m is 600).
validate_door_openings(openings, pixels_per_meter, min_door_width_mm, max_door_width_mm) ==
    ValidateLoop(openings, pixels_per_meter, min_door_width_mm, max_door_width_mm, 1)

\* Openings handed to the validation: at 1000 pixels per meter width_px is the
\* width in millimetres, at 500 half of it.
ValidateWidths == {299, 300, 599, 600, 674, 675, 700, 1600, 1610, 2200, 2201}

ValidateOpenings ==
    [opening_id : {0}, center_x : {0}, center_y : {0}, width_px : ValidateWidths,
     width_m : {None}, is_door : {FALSE}, confidence : {50}, detection_signals : {<<>>}]

ValidatePpm == {Frac(1000, 1), Frac(500, 1)}

\* <<min_door_width_m, max_door_width_m>> in millimetres: the defaults and a
\* narrower range.
DoorWidthRanges == {<<600, 2200>>, <<675, 1610>>}

DoorDetectionResult(doors, warnings, wall_mask_generated) ==
    Returned([doors |-> doors, warnings |-> warnings,
              wall_mask_generated |-> wall_mask_generated])

\* The body of the try block of detect_doors_from_wall_openings: mask
\* extraction, opening search, hatch filter, validation, deduplication.
WallStages(args, world) ==
    IF world.fault = "imread" THEN Raised("ValueError")
    ELSE IF world.fault = "mask_error" THEN Raised("cv2.error")
    ELSE IF world.fault = "empty_mask"
         THEN DoorDetectionResult(<<>>, <<"No walls detected in image">>, FALSE)
    ELSE IF world.fault = "find_wall_openings" THEN Raised("cv2.error")
    ELSE LET pixels_per_meter == Reduced(10000 * args.dpi, 254 * args.scale)
             openings == IF world.hatch_regions # <<>>
                         THEN filter_openings_in_hatch(world.openings, world.hatch_regions)
                         ELSE world.openings
             doors == validate_door_openings(openings, pixels_per_meter, 600, 2200)
         IN  DoorDetectionResult(deduplicate_openings(doors, 50), <<>>, TRUE)

\* The functions the try block of detect_doors_from_wall_openings calls, in
\* the order of the calls, up to the one that raises or the return after an
\* empty mask.  The hatch detection, the validation and the deduplication are
\* called whatever find_wall_openings returned.
WallStagesCalled(world) ==
    IF world.fault \in {"imread", "mask_error", "empty_mask"} THEN <<"extract_wall_mask">>
    ELSE IF world.fault = "find_wall_openings"
    THEN <<"extract_wall_mask", "find_wall_openings">>
    ELSE <<"extract_wall_mask", "find_wall_openings", "detect_hatch_regions">>
             \o (IF world.hatch_regions # <<>> THEN <<"filter_openings_in_hatch">> ELSE <<>>)
             \o <<"validate_door_openings", "deduplicate_openings">>

\* args: scale, dpi, debug_output_dir (whether one is given).  stages lists
\* the stage functions called, in the order of the calls.
detect_doors_from_wall_openings(args, world, disk) ==
    IF ~CV2_AVAILABLE(world)
    THEN [ret |-> DoorDetectionResult(<<>>, <<"OpenCV not available">>, FALSE),
          disk |-> disk, stages |-> <<>>]
    ELSE IF ~FITZ_AVAILABLE(world)
    THEN [ret |-> DoorDetectionResult(<<>>, <<"PyMuPDF not available">>, FALSE),
          disk |-> disk, stages |-> <<>>]
    ELSE IF args.scale = 0
    THEN [ret |-> Raised("ZeroDivisionError"), disk |-> disk, stages |-> <<>>]
    ELSE LET rendered == render_pdf_page_high_dpi(world, disk)
             image_path == rendered.output_path
         IN  IF rendered.raised
             THEN [ret |-> DoorDetectionResult(<<>>, <<"Failed to render PDF">>, FALSE),
                   disk |-> rendered.disk, stages |-> <<"render_pdf_page_high_dpi">>]
             ELSE [ret |-> WallStages(args, world),
                   stages |-> <<"render_pdf_page_high_dpi">> \o WallStagesCalled(world),
                   disk |-> IF ~args.debug_output_dir /\ image_path \in rendered.disk
                            THEN Remove(image_path, rendered.disk, world.remove_fails)
                            ELSE rendered.disk]

\* The block both YOLO pipelines share:
\*   try: image_path = render_pdf_page_to_image(...)
\*        try: run_object_detection_on_page, use of its objects
\*        finally: if os.path.exists(image_path): os.remove(image_path)
\*   except Exception: warning
\* A failing os.remove raises out of the finally clause into the except, after
\* the objects of the detection have been taken over.
YoloRenderAndDetect(world, disk) ==
    LET rendered == render_pdf_page_to_image(world.yolo_fault, disk)
        image_path == rendered.output_path
    IN  IF rendered.raised
        THEN [failed |-> TRUE, objects |-> <<>>, warnings |-> <<>>, disk |-> rendered.disk]
        ELSE LET after == IF image_path \in rendered.disk
                          THEN Remove(image_path, rendered.disk, world.yolo_remove_fails)
                          ELSE rendered.disk
                 failed == world.yolo_fault = "yolo_stage"
                               \/ (image_path \in rendered.disk /\ world.yolo_remove_fails)
                 detected == world.yolo_fault # "yolo_stage"
             IN  [failed |-> failed,
                  objects |-> IF detected THEN world.yolo_result.objects ELSE <<>>,
                  warnings |-> IF detected THEN world.yolo_result.warnings ELSE <<>>,
                  disk |-> after]

\* A detection turned into a WallOpening at the center of its bounding box;
\* generate_opening_id gives it an id no wall opening has.  The width estimate
\* taken from the bounding box is left out: nothing in the pipeline reads it.
YoloDoor(obj, i) ==
    [opening_id |-> 100 + i, center_x |-> obj.center_x, center_y |-> obj.center_y,
     is_door |-> TRUE, confidence |-> obj.confidence,
     detection_signals |-> <<"yolo_primary">>]

\* dist / 2 < 100 against some YOLO door.
IsDuplicateOfYolo(wo_door, yolo_doors) ==
    \E k \in 1..Len(yolo_doors) : DistSq(wo_door, yolo_doors[k]) < Sq(200)

\* The loop without the reduction of the confidence.
SupplementAtFullConfidence(wall_doors, yolo_doors, i) ==
    LET kept == SelectSeq(SubSeq(wall_doors, i, Len(wall_doors)),
                          LAMBDA wo_door : ~IsDuplicateOfYolo(wo_door, yolo_doors))
    IN  [k \in 1..Len(kept) |->
            [kept[k] EXCEPT !.detection_signals = Append(@, "wall_opening_supplement")]]

RECURSIVE SupplementLoop(_, _, _)
SupplementLoop(wall_doors, yolo_doors, i) ==
    IF i > Len(wall_doors) THEN <<>>
    ELSE LET wo_door == wall_doors[i]
             rest == SupplementLoop(wall_doors, yolo_doors, i + 1)
         IN  IF IsDuplicateOfYolo(wo_door, yolo_doors) THEN rest
             ELSE <<[wo_door EXCEPT
                        !.detection_signals = Append(@, "wall_opening_supplement"),
                        !.confidence = (@ * 4) \div 5]>> \o rest

\* args: scale, dpi (that of the detection mode), use_wall_opening_validation.
detect_doors_yolo_primary(args, world, disk) ==
    IF args.scale = 0
    THEN [ret |-> Raised("ZeroDivisionError"), disk |-> disk, wall_opening_calls |-> 0]
    ELSE LET yolo == IF world.yolo_available
                     THEN YoloRenderAndDetect(world, disk)
                     ELSE [failed |-> FALSE, objects |-> <<>>, warnings |-> <<>>,
                           disk |-> disk]
             yolo_doors == [i \in 1..Len(yolo.objects) |-> YoloDoor(yolo.objects[i], i)]
             warnings == IF ~world.yolo_available THEN <<"YOLO not available">>
                         ELSE IF yolo.failed THEN <<"YOLO failed">>
                         ELSE <<>>
         IN  IF args.use_wall_opening_validation /\ Len(yolo_doors) < 3
             THEN LET wall_result ==
                          detect_doors_from_wall_openings(
                              [scale |-> args.scale, dpi |-> 300,
                               debug_output_dir |-> FALSE], world.wall, yolo.disk)
                  IN  IF wall_result.ret.raised
                      THEN [ret |-> DoorDetectionResult(yolo_doors,
                                        Append(warnings, "Wall opening failed"), TRUE),
                            disk |-> wall_result.disk, wall_opening_calls |-> 1]
                      ELSE [ret |-> DoorDetectionResult(
                                        yolo_doors \o SupplementLoop(
                                            wall_result.ret.value.doors, yolo_doors, 1),
                                        warnings, TRUE),
                            disk |-> wall_result.disk, wall_opening_calls |-> 1]
             ELSE [ret |-> DoorDetectionResult(yolo_doors, warnings,
                                               args.use_wall_opening_validation),
                   disk |-> yolo.disk, wall_opening_calls |-> 0]

\* A vector door becomes the bounding box around its arc.
VectorObject(door) ==
    [bbox |-> [x |-> door.cx - door.r, y |-> door.cy - door.r,
               width |-> door.r * 2, height |-> door.r * 2],
     confidence |-> door.confidence, detection_method |-> "vector"]

YoloObject(obj) ==
    [bbox |-> obj.bbox, confidence |-> obj.confidence, detection_method |-> "yolo"]

\* args: scale, use_vector, use_yolo.
detect_doors_hybrid(args, world, disk) ==
    LET vector_failed == args.use_vector /\ (args.scale = 0 \/ world.vector_fails)
        vector_objects ==
            IF args.use_vector /\ ~vector_failed
            THEN [i \in 1..Len(world.vector_doors) |-> VectorObject(world.vector_doors[i])]
            ELSE <<>>
        run_yolo == args.use_yolo /\ world.yolo_available
        yolo == IF run_yolo THEN YoloRenderAndDetect(world, disk)
                ELSE [failed |-> FALSE, objects |-> <<>>, warnings |-> <<>>, disk |-> disk]
        yolo_objects == [i \in 1..Len(yolo.objects) |-> YoloObject(yolo.objects[i])]
        warnings ==
            (IF vector_failed THEN <<"Vector detection failed">> ELSE <<>>)
            \o yolo.warnings
            \o (IF run_yolo /\ yolo.failed THEN <<"YOLO detection failed">>
                ELSE IF args.use_yolo /\ ~world.yolo_available
                     THEN <<"YOLO not available">>
                     ELSE <<>>)
    IN  [ret |-> Returned([objects |-> merge_overlapping_detections(
                                           vector_objects \o yolo_objects,
                                           [num |-> 1, den |-> 2]),
                           warnings |-> warnings]),
         disk |-> yolo.disk]

\* What can go wrong in a wall-opening run, in the order of the steps.
WallFaults ==
    {"none", "no_cv2", "no_fitz"} \cup RenderFaults
        \cup {"imread", "mask_error", "empty_mask", "find_wall_openings"}

\* Openings as find_wall_openings reports them: 50, 100 or 170 px wide.
PipelineOpenings ==
    [opening_id : {0}, center_x : {0, 60}, center_y : {0}, width_px : {50, 100, 170},
     width_m : {None}, is_door : {FALSE}, confidence : {50}, detection_signals : {<<>>}]

\* generate_opening_id: the list position serves as the unique opening_id.
NumberOpenings(s) == [i \in 1..Len(s) |-> [s[i] EXCEPT !.opening_id = i]]

WallWorlds ==
    [fault : WallFaults, remove_fails : BOOLEAN,
     openings : {NumberOpenings(s) : s \in SeqsUpTo(PipelineOpenings, MaxPipelineOpenings)},
     hatch_regions : {<<>>, <<<<0, 0, 10, 10>>>>}]

\* Openings 100 px wide in the 300 DPI image of the wall-opening run.
SupplementOpenings ==
    [opening_id : {0}, center_x : {0, 60, 800}, center_y : {0}, width_px : {100},
     width_m : {None}, is_door : {FALSE}, confidence : {50}, detection_signals : {<<>>}]

\* The wall-opening run inside detect_doors_yolo_primary.
SupplementWorlds ==
    [fault : {"none", "pix_save", "mask_error"}, remove_fails : {FALSE},
     openings : {<<>>} \cup {NumberOpenings(<<o>>) : o \in SupplementOpenings},
     hatch_regions : {<<>>}]

\* The render resolutions of DETECTION_MODE_CONFIGS.
YoloModeDpis == {100, 150}

YoloFaults == {"none", "yolo_stage"} \cup RenderFaults

\* Doors the detection model reports at x = 0 or x = 400.
YoloDetections == [center_x : {0, 400}, center_y : {0}, confidence : {80}]

YoloPrimaryWorlds ==
    [yolo_available : BOOLEAN, yolo_fault : YoloFaults, yolo_remove_fails : BOOLEAN,
     yolo_result : [objects : SeqsUpTo(YoloDetections, MaxYoloDoors), warnings : {<<>>}],
     wall : SupplementWorlds]

\* run_object_detection_on_page reports objects, or no object and a warning.
HybridYoloResults ==
    [objects : SeqsUpTo([bbox : {b \in Boxes : b.y = 0}, confidence : {80}], 1),
     warnings : {<<>>}]
        \cup {[objects |-> <<>>, warnings |-> <<"Detection failed">>]}

HybridWorlds ==
    [yolo_available : BOOLEAN, yolo_fault : YoloFaults, yolo_remove_fails : BOOLEAN,
     yolo_result : HybridYoloResults, vector_fails : BOOLEAN,
     vector_doors : SeqsUpTo([cx : {1}, cy : {1}, r : {1}, confidence : {90}], 1)]

(***************************************************************************)
(* Scale persistence (persistence.py).  A row of scale_contexts keeps the  *)
(* columns the queries read; its id is also its creation time, and         *)
(* inserted_active remembers the is_active it was inserted with.  Each     *)
(* database request is one step, so calls of different clients interleave  *)
(* between the update and the insert.                                      *)
(***************************************************************************)
\* Two clients are enough for every interleaving of two overlapping calls.
Clients == {1, 2}

FileIds == {1, 2}

\* DetectionMethod.TEXT_SCALE and DetectionMethod.USER_CALIBRATION
DetectionMethods == {"text_scale", "user_calibration"}

IdleClient == [pc |-> "idle", result |-> None]

\* update({"is_active": False}).eq("file_id", file_id).eq("is_active", True)
Deactivated(rows, file_id) ==
    {IF r.file_id = file_id /\ r.is_active THEN [r EXCEPT !.is_active = FALSE] ELSE r :
        r \in rows}

\* The first request of store_scale_context, after the configuration checks.
\* rows_before keeps the rows the file had when the call began.
StoreBegin(c) ==
    /\ UNCHANGED notStoreVars
    /\ storeClient[c].pc = "idle"
    /\ next_id <= MaxStoreCalls
    /\ \E file_id \in FileIds, detection_method \in DetectionMethods, is_active \in BOOLEAN :
        storeClient' = [storeClient EXCEPT ![c] =
            [pc |-> IF is_active THEN "deactivate" ELSE "insert",
             result |-> None,
             file_id |-> file_id,
             rows_before |-> {r \in scale_contexts : r.file_id = file_id},
             scale_context |-> [id |-> next_id, detection_method |-> detection_method,
                                is_active |-> is_active]]]
    /\ next_id' = next_id + 1
    /\ UNCHANGED scale_contexts

\* Supabase disabled, or no client: nothing is stored.
StoreUnavailable(c) ==
    /\ UNCHANGED notStoreVars
    /\ storeClient[c].pc = "idle"
    /\ \E supabase_enabled \in BOOLEAN :
        storeClient' = [storeClient EXCEPT ![c] =
            [pc |-> "idle",
             result |-> [supabase_enabled |-> supabase_enabled, success |-> FALSE,
                         scale_context_id |-> 0]]]
    /\ UNCHANGED <<scale_contexts, next_id>>

\* if scale_context.is_active: deactivate the active rows of the file; a
\* failing request ends the call in the except clause.
StoreDeactivate(c) ==
    /\ UNCHANGED notStoreVars
    /\ storeClient[c].pc = "deactivate"
    /\ \E fails \in BOOLEAN :
        IF fails
        THEN /\ storeClient' = [storeClient EXCEPT ![c] =
                    [pc |-> "idle",
                     result |-> [supabase_enabled |-> TRUE, success |-> FALSE,
                                 scale_context_id |-> 0]]]
             /\ UNCHANGED scale_contexts
        ELSE /\ scale_contexts' = Deactivated(scale_contexts, storeClient[c].file_id)
             /\ storeClient' = [storeClient EXCEPT ![c].pc = "insert"]
    /\ UNCHANGED next_id

\* insert(scale_data); a failing insert ends the call in the except clause.
StoreInsert(c) ==
    /\ UNCHANGED notStoreVars
    /\ storeClient[c].pc = "insert"
    /\ \E fails \in BOOLEAN :
        IF fails
        THEN /\ storeClient' = [storeClient EXCEPT ![c] =
                    [pc |-> "idle",
                     result |-> [supabase_enabled |-> TRUE, success |-> FALSE,
                                 scale_context_id |-> 0]]]
             /\ UNCHANGED scale_contexts
        ELSE LET sc == storeClient[c].scale_context
             IN  /\ scale_contexts' = scale_contexts \cup
                        {[id |-> sc.id, file_id |-> storeClient[c].file_id,
                          detection_method |-> sc.detection_method,
                          is_active |-> sc.is_active,
                          inserted_active |-> sc.is_active]}
                 /\ storeClient' = [storeClient EXCEPT ![c] =
                        [pc |-> "idle",
                         result |-> [supabase_enabled |-> TRUE, success |-> TRUE,
                                     scale_context_id |-> sc.id]]]
    /\ UNCHANGED next_id

\* The most recently created row of the file, among the active ones if
\* active_only; None if there is none.
get_scale_context(file_id, active_only) ==
    LET rows == {r \in scale_contexts :
                    r.file_id = file_id /\ (active_only => r.is_active)}
    IN  IF rows = {} THEN None
        ELSE CHOOSE r \in rows : \A q \in rows : q.id <= r.id

(***************************************************************************)
(* get_yolo_model (cv_pipeline.py): the lazily loaded model in the globals *)
(* _yolo_model and _yolo_model_path.  The function takes no lock, so every *)
(* read and write of a global is a step of its own.  A handle is the       *)
(* number of the load that created it.                                     *)
(***************************************************************************)
\* Two threads are enough for every interleaving of two overlapping calls.
Threads == {1, 2}

ModelPaths == {1, 2}

IdleThread == [pc |-> "idle", model_path |-> 0, ret |-> None]

\* YOLO unavailable, disabled or the model file missing: return None.
\* Otherwise go on to the cache test with settings.yolo_model_path.
YoloBegin(t) ==
    /\ UNCHANGED notYoloVars
    /\ yoloThread[t].pc = "idle"
    /\ yoloLog.calls < MaxYoloCalls
    /\ \E configured \in BOOLEAN, model_path \in ModelPaths :
        IF configured
        THEN /\ yoloThread' = [yoloThread EXCEPT ![t] =
                    [pc |-> "check", model_path |-> model_path, ret |-> None]]
             /\ yoloLog' = [yoloLog EXCEPT !.calls = @ + 1,
                                           !.paths = @ \cup {model_path}]
        ELSE /\ yoloThread' = [yoloThread EXCEPT ![t] = IdleThread]
             /\ yoloLog' = [yoloLog EXCEPT !.calls = @ + 1]
    /\ UNCHANGED <<yolo_model, yolo_model_path>>

\* if _yolo_model is not None and _yolo_model_path == model_path
YoloCheckCache(t) ==
    /\ UNCHANGED notYoloVars
    /\ yoloThread[t].pc = "check"
    /\ yoloThread' = [yoloThread EXCEPT ![t].pc =
           IF yolo_model # None /\ yolo_model_path = yoloThread[t].model_path
           THEN "return" ELSE "load"]
    /\ UNCHANGED <<yolo_model, yolo_model_path, yoloLog>>

\* _yolo_model = YOLO(model_path); a failing load returns None.
YoloLoad(t) ==
    /\ UNCHANGED notYoloVars
    /\ yoloThread[t].pc = "load"
    /\ \E fails \in BOOLEAN :
        IF fails
        THEN /\ yoloThread' = [yoloThread EXCEPT ![t] =
                    [pc |-> "idle", model_path |-> 0, ret |-> None]]
             /\ UNCHANGED <<yolo_model, yoloLog>>
        ELSE /\ yolo_model' = [handle |-> yoloLog.loads + 1,
                               model_path |-> yoloThread[t].model_path]
             /\ yoloLog' = [yoloLog EXCEPT !.loads = @ + 1]
             /\ yoloThread' = [yoloThread EXCEPT ![t].pc = "set_path"]
    /\ UNCHANGED yolo_model_path

\* _yolo_model_path = model_path
YoloSetPath(t) ==
    /\ UNCHANGED notYoloVars
    /\ yoloThread[t].pc = "set_path"
    /\ yolo_model_path' = yoloThread[t].model_path
    /\ yoloThread' = [yoloThread EXCEPT ![t].pc = "return"]
    /\ UNCHANGED <<yolo_model, yoloLog>>

\* return _yolo_model: the global is read again.
YoloReturn(t) ==
    /\ UNCHANGED notYoloVars
    /\ yoloThread[t].pc = "return"
    /\ yoloThread' = [yoloThread EXCEPT ![t] =
           [pc |-> "idle", model_path |-> 0, ret |-> yolo_model]]
    /\ yoloLog' = [yoloLog EXCEPT !.returned = @ \cup {yolo_model}]
    /\ UNCHANGED <<yolo_model, yolo_model_path>>

(***************************************************************************)
(* Harness: a behaviour makes one call of a pure function on inputs drawn  *)
(* from the bounded sets above.                                            *)
(***************************************************************************)
Init ==
    /\ call = NoCall
    /\ ret = NoCall
    /\ tmpfiles = {}
    /\ scale_contexts = {}
    /\ next_id = 1
    /\ storeClient = [c \in Clients |-> IdleClient]
    /\ yolo_model = None
    /\ yolo_model_path = 0
    /\ yoloThread = [t \in Threads |-> IdleThread]
    /\ yoloLog = [calls |-> 0, loads |-> 0, paths |-> {}, returned |-> {}]

CallDeduplicate ==
    /\ call = NoCall
    /\ UNCHANGED worldVars
    /\ \E s \in OpeningLists, t \in 1..MaxThreshold :
        /\ call' = [fn |-> "deduplicate_openings", openings |-> WithIds(s),
                    distance_threshold_px |-> t]
        /\ ret' = deduplicate_openings(WithIds(s), t)

DedupNext == CallDeduplicate

SpecDedup == Init /\ [][DedupNext]_vars

CallFilterHatch ==
    /\ call = NoCall
    /\ UNCHANGED worldVars
    /\ \E s \in HatchOpeningLists, h \in HatchRegionLists :
        /\ call' = [fn |-> "filter_openings_in_hatch", openings |-> WithIds(s),
                    hatch_regions |-> h]
        /\ ret' = filter_openings_in_hatch(WithIds(s), h)

HatchNext == CallFilterHatch

SpecHatch == Init /\ [][HatchNext]_vars

CallMergeOverlapping ==
    /\ call = NoCall
    /\ UNCHANGED worldVars
    /\ \E s \in DetectedObjectLists, t \in IouThresholds :
        /\ call' = [fn |-> "_merge_overlapping_detections", objects |-> WithObjectIds(s),
                    iou_threshold |-> t]
        /\ ret' = merge_overlapping_detections(WithObjectIds(s), t)

NmsNext == CallMergeOverlapping

SpecNms == Init /\ [][NmsNext]_vars

CallDetectScaleFromText ==
    /\ call = NoCall
    /\ UNCHANGED worldVars
    /\ \E page_text \in PageTexts :
        /\ call' = [fn |-> "detect_scale_from_text", page_text |-> page_text]
        /\ ret' = Returned(detect_scale_from_text(page_text))

CallDetectScaleFromPage ==
    /\ call = NoCall
    /\ UNCHANGED worldVars
    /\ \E page \in Pages, n \in 1..MaxPages :
        /\ call' = [fn |-> "detect_scale_from_page", page_number |-> n, page |-> page]
        /\ ret' = detect_scale_from_page(n, page)

CallDetectScaleFromDocument ==
    /\ call = NoCall
    /\ UNCHANGED worldVars
    /\ \E dpi \in DpiValues :
       \E pages \in DocumentPages(dpi) :
       \E search_pages \in SearchPages :
        /\ call' = [fn |-> "detect_scale_from_document", pages |-> pages,
                    search_pages |-> search_pages]
        /\ ret' = detect_scale_from_document(pages, search_pages)

CallComputeScaleFromPoints ==
    /\ call = NoCall
    /\ UNCHANGED worldVars
    /\ \E px \in PixelDistances, m \in RealDistances, info \in PageInfos :
        /\ call' = [fn |-> "compute_scale_from_points", pixel_distance |-> px,
                    real_distance_meters |-> m, page_info |-> info]
        /\ ret' = compute_scale_from_points(px, m, 1, info)

ScaleNext ==
    \/ CallDetectScaleFromText
    \/ CallDetectScaleFromPage
    \/ CallDetectScaleFromDocument
    \/ CallComputeScaleFromPoints

SpecScale == Init /\ [][ScaleNext]_vars

CallPxToMeters ==
    /\ call = NoCall
    /\ UNCHANGED worldVars
    /\ \E ppm \in PpmValues, px \in Lengths :
        /\ call' = [fn |-> "px_to_meters", pixels_per_meter |-> ppm, px |-> px]
        /\ ret' = px_to_meters(ppm, px)

CallMetersToPx ==
    /\ call = NoCall
    /\ UNCHANGED worldVars
    /\ \E ppm \in PpmValues, m \in Lengths :
        /\ call' = [fn |-> "meters_to_px", pixels_per_meter |-> ppm, meters |-> m]
        /\ ret' = meters_to_px(ppm, m)

CallSectorArea ==
    /\ call = NoCall
    /\ UNCHANGED worldVars
    /\ \E ppm \in PpmValues, poly \in Polygons :
        /\ call' = [fn |-> "compute_sector_area_m2", pixels_per_meter |-> ppm,
                    polygon_points |-> poly]
        /\ ret' = compute_sector_area_m2(poly, ppm)

CallSectorPerimeter ==
    /\ call = NoCall
    /\ UNCHANGED worldVars
    /\ \E ppm \in PpmValues, poly \in Polygons :
        /\ call' = [fn |-> "compute_sector_perimeter_m", pixels_per_meter |-> ppm,
                    polygon_points |-> poly]
        /\ ret' = compute_sector_perimeter_m(poly, ppm)

CallWallLength ==
    /\ call = NoCall
    /\ UNCHANGED worldVars
    /\ \E ppm \in PpmValues, sector \in Sectors, both \in BOOLEAN,
          walls \in SeqsUpTo(WallSegments, MaxWalls) :
        /\ call' = [fn |-> "compute_wall_length_in_sector_m", pixels_per_meter |-> ppm,
                    sector |-> sector, wall_segments |-> walls,
                    require_both_endpoints |-> both]
        /\ ret' = compute_wall_length_in_sector_m(walls, sector, ppm, both)

CallDrywallArea ==
    /\ call = NoCall
    /\ UNCHANGED worldVars
    /\ \E ppm \in PpmValues, sector \in Sectors \cup {SquareSector}, both \in BOOLEAN,
          height \in WallHeights,
          walls \in SeqsUpTo(WallSegments \cup {SquareWall}, MaxWalls) :
        /\ call' = [fn |-> "compute_drywall_area_in_sector_m2", pixels_per_meter |-> ppm,
                    sector |-> sector, wall_segments |-> walls,
                    wall_height_m |-> height, require_both_endpoints |-> both]
        /\ ret' = compute_drywall_area_in_sector_m2(walls, sector, ppm, height, both)

ConvertNext ==
    \/ CallPxToMeters
    \/ CallMetersToPx
    \/ CallSectorArea
    \/ CallSectorPerimeter
    \/ CallWallLength
    \/ CallDrywallArea

SpecConvert == Init /\ [][ConvertNext]_vars

CallAngleDegrees ==
    /\ call = NoCall
    /\ UNCHANGED worldVars
    /\ \E segment \in LineSegments :
        /\ call' = [fn |-> "angle_degrees", segment |-> segment]
        /\ ret' = Returned(angle_degrees(segment))

CallShoelaceArea ==
    /\ call = NoCall
    /\ UNCHANGED worldVars
    /\ \E poly \in VertexLists :
        /\ call' = [fn |-> "shoelace_area_pixels", polygon_points |-> poly]
        /\ ret' = shoelace_area_pixels(poly)

CallPointInPolygon ==
    /\ call = NoCall
    /\ UNCHANGED worldVars
    /\ \E base \in VertexLists :
        \E pt \in QueryPoints(base) :
            /\ call' = [fn |-> "point_in_polygon", x |-> pt[1], y |-> pt[2],
                        polygon_points |-> Scaled(base, Max2(Len(base), 1))]
            /\ ret' = Returned(point_in_polygon(pt[1], pt[2],
                                   Scaled(base, Max2(Len(base), 1))))

GeometryNext ==
    \/ CallAngleDegrees
    \/ CallShoelaceArea
    \/ CallPointInPolygon

SpecGeometry == Init /\ [][GeometryNext]_vars

CallExtractDoorSymbols ==
    /\ call = NoCall
    /\ UNCHANGED worldVars
    /\ \E world \in DoorWorlds, ppm \in {None, Frac(100, 1)}, min_cm \in DoorMinWidths :
        /\ call' = [fn |-> "extract_door_symbols_from_page", world |-> world,
                    pixels_per_meter |-> ppm, min_door_width_cm |-> min_cm,
                    max_door_width_cm |-> 250]
        /\ ret' = extract_door_symbols_from_page(world, min_cm, 250, ppm)

CallMeasureDoors ==
    /\ call = NoCall
    /\ UNCHANGED worldVars
    /\ \E world \in DoorWorlds, ppm \in DoorPpm :
        /\ call' = [fn |-> "measure_doors_on_page", world |-> world,
                    pixels_per_meter |-> ppm,
                    min_door_width_cm |-> MEASURE_MIN_DOOR_WIDTH_CM,
                    max_door_width_cm |-> MEASURE_MAX_DOOR_WIDTH_CM]
        /\ ret' = measure_doors_on_page(world, ppm, MEASURE_MIN_DOOR_WIDTH_CM,
                                        MEASURE_MAX_DOOR_WIDTH_CM)

DoorSymbolNext ==
    \/ CallExtractDoorSymbols
    \/ CallMeasureDoors

SpecDoorSymbols == Init /\ [][DoorSymbolNext]_vars

CallFindCollinearGaps ==
    /\ call = NoCall
    /\ UNCHANGED worldVars
    /\ \E orientation \in {"horizontal", "vertical"} :
        \E lines \in SeqsUpTo(GapLines(orientation), MaxGapLines) :
            /\ call' = [fn |-> "_find_collinear_gaps", lines |-> lines,
                        orientation |-> orientation, min_gap |-> 10, max_gap |-> 30,
                        min_context |-> 10]
            /\ ret' = Returned(_find_collinear_gaps(lines, orientation, 10, 30, 10))

GapNext == CallFindCollinearGaps

SpecGaps == Init /\ [][GapNext]_vars

CallExtractWindowSymbols ==
    /\ call = NoCall
    /\ UNCHANGED worldVars
    /\ \E world \in WindowWorlds, ppm \in {None, Frac(100, 1)}, centers \in DoorCenterLists :
        /\ call' = [fn |-> "extract_window_symbols_from_page", world |-> world,
                    pixels_per_meter |-> ppm, door_centers |-> centers]
        /\ ret' = extract_window_symbols_from_page(world, 40, 350, ppm, centers)

WindowNext == CallExtractWindowSymbols

SpecWindows == Init /\ [][WindowNext]_vars

CallRunDrywallGewerk ==
    /\ call = NoCall
    /\ UNCHANGED worldVars
    /\ \E world \in GewerkWorlds, sector \in Sectors \cup {SquareSector},
          ppm \in PpmValues, height \in WallHeights, min_len \in MinSegmentLengths :
        /\ call' = [fn |-> "run_drywall_gewerk_for_sector", world |-> world,
                    sector |-> sector, pixels_per_meter |-> ppm,
                    wall_height_m |-> height, min_segment_length_px |-> min_len]
        /\ ret' = run_drywall_gewerk_for_sector(world, sector, ppm, height, min_len)

GewerkNext == CallRunDrywallGewerk

SpecGewerk == Init /\ [][GewerkNext]_vars

CallMapYoloClass ==
    /\ call = NoCall
    /\ UNCHANGED worldVars
    /\ \E class_name \in ClassNames :
        /\ call' = [fn |-> "_map_yolo_class_to_object_type", class_name |-> class_name]
        /\ ret' = Returned(_map_yolo_class_to_object_type(class_name))

CallRunObjectDetection ==
    /\ call = NoCall
    /\ UNCHANGED worldVars
    /\ \E world \in DetectionWorlds, object_types \in ObjectTypeFilters :
        /\ call' = [fn |-> "run_object_detection_on_page", world |-> world,
                    object_types |-> object_types]
        /\ ret' = Returned(run_object_detection_on_page(world, object_types))

DetectionNext ==
    \/ CallMapYoloClass
    \/ CallRunObjectDetection

SpecDetection == Init /\ [][DetectionNext]_vars

CallValidateDoorOpenings ==
    /\ call = NoCall
    /\ UNCHANGED worldVars
    /\ \E openings \in SeqsUpTo(ValidateOpenings, MaxValidated), ppm \in ValidatePpm,
          range \in DoorWidthRanges :
        /\ call' = [fn |-> "validate_door_openings", openings |-> NumberOpenings(openings),
                    pixels_per_meter |-> ppm, min_door_width_mm |-> range[1],
                    max_door_width_mm |-> range[2]]
        /\ ret' = Returned(validate_door_openings(NumberOpenings(openings), ppm,
                                                  range[1], range[2]))

ValidateNext == CallValidateDoorOpenings

SpecValidate == Init /\ [][ValidateNext]_vars

CallDetectDoorsFromWallOpenings ==
    /\ call = NoCall
    /\ \E args \in [scale : {0, 100}, dpi : {400}, debug_output_dir : BOOLEAN],
          world \in WallWorlds :
        LET out == detect_doors_from_wall_openings(args, world, tmpfiles)
        IN  /\ call' = [fn |-> "detect_doors_from_wall_openings", args |-> args,
                        world |-> world, stages |-> out.stages]
            /\ ret' = out.ret
            /\ tmpfiles' = out.disk
            /\ UNCHANGED <<storeVars, yoloVars>>

CallDetectDoorsYoloPrimary ==
    /\ call = NoCall
    /\ \E args \in [scale : {0, 100}, dpi : YoloModeDpis,
                      use_wall_opening_validation : BOOLEAN],
          world \in YoloPrimaryWorlds :
        LET out == detect_doors_yolo_primary(args, world, tmpfiles)
        IN  /\ call' = [fn |-> "detect_doors_yolo_primary", args |-> args,
                        world |-> world, wall_opening_calls |-> out.wall_opening_calls]
            /\ ret' = out.ret
            /\ tmpfiles' = out.disk
            /\ UNCHANGED <<storeVars, yoloVars>>

CallDetectDoorsHybrid ==
    /\ call = NoCall
    /\ \E args \in [scale : {0, 100}, use_vector : BOOLEAN, use_yolo : BOOLEAN],
          world \in HybridWorlds :
        LET out == detect_doors_hybrid(args, world, tmpfiles)
        IN  /\ call' = [fn |-> "detect_doors_hybrid", args |-> args, world |-> world]
            /\ ret' = out.ret
            /\ tmpfiles' = out.disk
            /\ UNCHANGED <<storeVars, yoloVars>>

PipelineNext ==
    \/ CallDetectDoorsFromWallOpenings
    \/ CallDetectDoorsYoloPrimary
    \/ CallDetectDoorsHybrid

SpecPipeline == Init /\ [][PipelineNext]_vars

StoreNext ==
    \/ \E c \in Clients : StoreBegin(c)
    \/ \E c \in Clients : StoreUnavailable(c)
    \/ \E c \in Clients : StoreDeactivate(c)
    \/ \E c \in Clients : StoreInsert(c)

SpecStore == Init /\ [][StoreNext]_vars

YoloNext ==
    \/ \E t \in Threads : YoloBegin(t)
    \/ \E t \in Threads : YoloCheckCache(t)
    \/ \E t \in Threads : YoloLoad(t)
    \/ \E t \in Threads : YoloSetPath(t)
    \/ \E t \in Threads : YoloReturn(t)

SpecYolo == Init /\ [][YoloNext]_vars

(***************************************************************************)
(* Properties.                                                             *)
(***************************************************************************)
IsSubsequence(sub, full) ==
    \E f \in [1..Len(sub) -> 1..Len(full)] :
        /\ \A i \in 1..Len(sub) : sub[i] = full[f[i]]
        /\ \A i, j \in 1..Len(sub) : i < j => f[i] < f[j]

DedupDone == call.fn = "deduplicate_openings"

\* C8 as stated: in the output of deduplicate_openings with threshold T the
\* centers of every two distinct kept openings are farther apart than T (an
\* opening exactly T away from a kept opening is discarded).
C8_KeptFartherThanThreshold ==
    DedupDone =>
        \A i, j \in 1..Len(ret) :
            i # j => DistSq(ret[i], ret[j]) > Sq(call.distance_threshold_px)

\* C8 amended: every two distinct kept openings are at least T apart, and an
\* opening is discarded only if it lies strictly closer than T to a kept
\* opening, so an opening exactly T away from every nearby kept opening is kept.
C8_KeptAtLeastThreshold ==
    DedupDone =>
        /\ \A i, j \in 1..Len(ret) :
               i # j => DistSq(ret[i], ret[j]) >= Sq(call.distance_threshold_px)
        /\ \A o \in Range(call.openings) \ Range(ret) :
               \E k \in Range(ret) : DistSq(o, k) < Sq(call.distance_threshold_px)

\* Two kept openings whose centers are exactly T > 0 apart.
C8_Witness ==
    /\ DedupDone
    /\ call.distance_threshold_px > 0
    /\ \E i, j \in 1..Len(ret) :
           i # j /\ DistSq(ret[i], ret[j]) = Sq(call.distance_threshold_px)

HatchDone == call.fn = "filter_openings_in_hatch"

StrictlyInside(o, r) ==
    /\ r[1] < o.center_x /\ o.center_x < r[1] + r[3]
    /\ r[2] < o.center_y /\ o.center_y < r[2] + r[4]

\* The center is at least 1 px away from the box along some axis.
OnePxOutside(o, r) ==
    \/ o.center_x <= r[1] - 1 \/ o.center_x >= r[1] + r[3] + 1
    \/ o.center_y <= r[2] - 1 \/ o.center_y >= r[2] + r[4] + 1

\* C10: filter_openings_in_hatch removes every opening whose center lies
\* strictly inside some reported hatch box and retains, unchanged and in input
\* order, every opening whose center is 1 px or more outside all the boxes.
C10_HatchFilter ==
    HatchDone =>
        /\ \A o \in Range(call.openings) :
               (\E r \in Range(call.hatch_regions) : StrictlyInside(o, r))
                   => o \notin Range(ret)
        /\ \A o \in Range(call.openings) :
               (\A r \in Range(call.hatch_regions) : OnePxOutside(o, r))
                   => o \in Range(ret)
        /\ IsSubsequence(ret, call.openings)

\* A call that removes an opening strictly inside a box and keeps one outside it.
C10_Witness ==
    /\ HatchDone
    /\ \E o \in Range(call.openings) :
           /\ \E r \in Range(call.hatch_regions) : StrictlyInside(o, r)
           /\ o \notin Range(ret)
    /\ \E o \in Range(call.openings) :
           /\ \A r \in Range(call.hatch_regions) : OnePxOutside(o, r)
           /\ o \in Range(ret)


NmsDone == call.fn = "_merge_overlapping_detections"

IouAbove(a, b) == FracGreater(compute_iou(a.bbox, b.bbox), call.iou_threshold)
IouBelow(a, b) == FracGreater(call.iou_threshold, compute_iou(a.bbox, b.bbox))

\* C9: in the output of _merge_overlapping_detections no two kept candidates
\* have IoU above the threshold; a suppressed candidate has a kept candidate of
\* equal or higher confidence whose IoU with it is above the threshold; of two
\* candidates only the higher-confidence one survives when their IoU is above
\* the threshold and both survive when it is below.
C9_OverlapSuppression ==
    NmsDone =>
        /\ \A i, j \in 1..Len(ret) : i # j => ~IouAbove(ret[i], ret[j])
        /\ Range(ret) \subseteq Range(call.objects)
        /\ \A o \in Range(call.objects) \ Range(ret) :
               \E k \in Range(ret) : k.confidence >= o.confidence /\ IouAbove(k, o)
        /\ Len(call.objects) = 2 =>
               LET a == call.objects[1]
                   b == call.objects[2]
               IN  /\ IouAbove(a, b) =>
                          /\ Len(ret) = 1
                          /\ ret[1].confidence >= a.confidence
                          /\ ret[1].confidence >= b.confidence
                   /\ IouBelow(a, b) => Range(ret) = {a, b}

\* Three candidates A > B > C by confidence where A suppresses B, and C, which
\* overlaps only B, survives.
C9_Witness ==
    /\ NmsDone
    /\ Len(call.objects) = 3
    /\ Len(ret) = 2
    /\ \E b \in Range(call.objects) \ Range(ret) :
           /\ IouAbove(ret[1], b)
           /\ IouAbove(b, ret[2])
           /\ ret[2].confidence < b.confidence


ScaleDone ==
    call.fn \in {"detect_scale_from_page", "detect_scale_from_document",
                 "compute_scale_from_points"}

\* C5: every ScaleContext returned by detect_scale_from_page,
\* detect_scale_from_document or compute_scale_from_points has
\* pixels_per_meter either None or strictly positive, whatever the render dpi.
C5_PixelsPerMeterNoneOrPositive ==
    (ScaleDone /\ ~ret.raised) =>
        \/ ret.value.pixels_per_meter = None
        \/ IsPositive(ret.value.pixels_per_meter)


ConvertDone ==
    call.fn \in {"px_to_meters", "meters_to_px", "compute_sector_area_m2",
                 "compute_sector_perimeter_m", "compute_wall_length_in_sector_m"}

\* C6: every conversion between pixels and real units (px_to_meters,
\* meters_to_px, compute_sector_area_m2, compute_sector_perimeter_m,
\* compute_wall_length_in_sector_m) fails instead of returning a value when
\* pixels_per_meter is None, zero or negative.
C6_ConversionsRejectNonPositiveScale ==
    (ConvertDone /\ ~has_scale(call.pixels_per_meter)) => ret.raised

WallDone == call.fn = "detect_doors_from_wall_openings"

\* C1: detect_doors_from_wall_openings does not raise when rendering or
\* wall-mask extraction is unavailable or fails (no OpenCV, no PyMuPDF, a
\* render error, an unreadable rendered image, an error inside the mask
\* extraction, an empty mask): it returns no doors and at least one warning.
C1_FailedStageGivesWarningResult ==
    (/\ WallDone
     /\ call.args.scale > 0
     /\ call.world.fault \in ({"no_cv2", "no_fitz", "imread", "mask_error", "empty_mask"}
                                 \cup RenderFaults))
        => /\ ~ret.raised
           /\ ret.value.doors = <<>>
           /\ Len(ret.value.warnings) >= 1

PipelineDone ==
    call.fn \in {"detect_doors_from_wall_openings", "detect_doors_yolo_primary",
                 "detect_doors_hybrid"}

\* Nothing stands in the way of the cleanup: no debug directory asks for the
\* image to be kept and os.remove does not fail.
CleanupPossible ==
    IF call.fn = "detect_doors_from_wall_openings"
    THEN ~call.args.debug_output_dir /\ ~call.world.remove_fails
    ELSE ~call.world.yolo_remove_fails

\* C2: when a detection invocation (wall openings, YOLO primary, hybrid) has
\* returned or failed, no temporary rendered image it created is left on
\* disk, whichever stage failed, the writing of the image included.
C2_NoTemporaryImageLeft == (PipelineDone /\ CleanupPossible) => tmpfiles = {}

\* No store_scale_context call is under way.
StoreQuiescent == \A c \in Clients : storeClient[c].pc = "idle"

ActiveRows(file_id) == {r \in scale_contexts : r.file_id = file_id /\ r.is_active}

\* C3: once the store_scale_context calls have ended, however they
\* interleaved, no file has more than one active scale context.
C3_AtMostOneActivePerFile ==
    StoreQuiescent => \A f \in FileIds : Cardinality(ActiveRows(f)) <= 1

\* A calibration of this kind was stored for the file as its active one.
HasStored(file_id, detection_method) ==
    \E r \in scale_contexts :
        /\ r.file_id = file_id
        /\ r.detection_method = detection_method
        /\ r.inserted_active

\* C7: once a user calibration and a text-detected calibration have both been
\* stored for a file, in either order, the active calibration of the file is
\* the user calibration.
C7_UserCalibrationIsActive ==
    StoreQuiescent =>
        \A f \in FileIds :
            (HasStored(f, "user_calibration") /\ HasStored(f, "text_scale"))
                => /\ get_scale_context(f, TRUE) # None
                   /\ get_scale_context(f, TRUE).detection_method = "user_calibration"

\* C4: when every get_yolo_model call was made with the same configured
\* model path, the model is loaded at most once and all calls that return a
\* model return the same handle, however the calls interleave.
C4_LoadedOnceAndShared ==
    Cardinality(yoloLog.paths) <= 1
        => /\ yoloLog.loads <= 1
           /\ Cardinality(yoloLog.returned \ {None}) <= 1

DocumentDone == call.fn = "detect_scale_from_document"

\* The pages the call searches, in order: the given list (every page when no
\* list is given) without the page numbers the document lacks.
SearchedPages ==
    LET list == IF call.search_pages.given THEN call.search_pages.list
                ELSE [i \in 1..Len(call.pages) |-> i]
    IN  SelectSeq(list, LAMBDA n : n \in 1..Len(call.pages))

\* What detect_scale_from_page gives for the k-th searched page.
PageResult(k) ==
    detect_scale_from_page(SearchedPages[k], call.pages[SearchedPages[k]]).value

\* C11: detect_scale_from_document returns the result of the first searched
\* page whose confidence is at least 0.9, whatever the later pages hold; if
\* no page reaches 0.9 it returns a page result of the highest confidence
\* among the searched pages; if no searched page yields a scale it returns
\* a no-scale result with confidence 0 and pixels_per_meter None.
C11_FirstHighConfidenceElseBest ==
    DocumentDone =>
        LET n == Len(SearchedPages)
            high == {k \in 1..n : PageResult(k).confidence >= 90}
        IN  /\ ~ret.raised
            /\ IF high # {}
               THEN ret.value = PageResult(CHOOSE k \in high : \A j \in high : k <= j)
               ELSE IF \E k \in 1..n : PageResult(k).confidence > 0
               THEN /\ \E k \in 1..n : ret.value = PageResult(k)
                    /\ \A k \in 1..n : PageResult(k).confidence <= ret.value.confidence
               ELSE /\ ret.value.confidence = 0
                    /\ ret.value.pixels_per_meter = None
                    /\ ret.value.detection_method = "none"

\* Page 1 reaches exactly 0.9, page 2 would reach 0.95: page 1 is returned.
C11_Witness ==
    /\ DocumentDone
    /\ Len(SearchedPages) = 2
    /\ PageResult(1).confidence = 90
    /\ PageResult(2).confidence = 95
    /\ ret.value = PageResult(1)

TextDone == call.fn = "detect_scale_from_text"

\* The confidence the keyword of an expression stands for: 0.95 for the
\* Massstab keyword in either spelling, 0.90 for SCALE, 0.85 for the M
\* prefix, 0.70 for a bare 1:N.
KeywordConfidence(kw) ==
    IF kw \in {Massstab, MassstabEszett} THEN 95
    ELSE IF kw = ScaleWord THEN 90
    ELSE IF kw \in {PrefixM, PrefixMDot} THEN 85
    ELSE 70

\* C12: detect_scale_from_text returns only denominators in [1, 10000], and
\* for a text with one scale expression whose denominator is in that range
\* it returns that denominator with the confidence of the keyword: 0.95 for
\* Massstab (written with sharp s or as MASSSTAB), 0.90 for SCALE, 0.85 for
\* an M prefix and 0.70 for a bare 1:N.
C12_ConfidenceByKeyword ==
    TextDone =>
        /\ ret.value # None => ret.value.scale_factor \in 1..10000
        /\ (/\ Len(call.page_text) = 1
            /\ call.page_text[1].den \in 1..10000
            /\ call.page_text[1].kw \in
                   {Massstab, MassstabEszett, ScaleWord, PrefixM, PrefixMDot, NoWord})
               => /\ ret.value # None
                  /\ ret.value.scale_factor = call.page_text[1].den
                  /\ ret.value.confidence = KeywordConfidence(call.page_text[1].kw)

AngleDone == call.fn = "angle_degrees"

\* 0 <= angle < 180: the direction points above the x axis or along its
\* positive half.
InHalfOpenRange(angle_deg) ==
    angle_deg.dy > 0 \/ (angle_deg.dy = 0 /\ angle_deg.dx > 0)

Swapped(segment) ==
    [segment EXCEPT !.x1 = segment.x2, !.y1 = segment.y2,
                    !.x2 = segment.x1, !.y2 = segment.y1]

\* C13: for every LineSegment, angle_degrees lies in [0, 180), and the segment
\* with its two endpoints swapped has the same angle.
C13_AngleInHalfOpenRange ==
    AngleDone =>
        /\ InHalfOpenRange(ret.value)
        /\ ret.value = angle_degrees(Swapped(call.segment))

ShoelaceDone == call.fn = "shoelace_area_pixels"

Reversed(pts) == [i \in 1..Len(pts) |-> pts[Len(pts) + 1 - i]]

\* The list started k vertices later.
Rotated(pts, k) == [i \in 1..Len(pts) |-> pts[((i + k - 1) % Len(pts)) + 1]]

PointInPolygonDone == call.fn = "point_in_polygon"

\* The point asked about is the mean of the vertices.
IsCentroid ==
    /\ Len(call.polygon_points) * call.x = SumCoord(call.polygon_points, 1, 1)
    /\ Len(call.polygon_points) * call.y = SumCoord(call.polygon_points, 2, 1)

\* Twice the signed area of the triangle o, a, b.
Cross(o, a, b) == (a[1] - o[1]) * (b[2] - o[2]) - (a[2] - o[2]) * (b[1] - o[1])

\* p lies on the closed segment from a to b.
OnSegment(p, a, b) ==
    /\ Cross(a, b, p) = 0
    /\ Min2(a[1], b[1]) <= p[1] /\ p[1] <= Max2(a[1], b[1])
    /\ Min2(a[2], b[2]) <= p[2] /\ p[2] <= Max2(a[2], b[2])

\* The closed segments a-b and c-d have a point in common.
SegmentsMeet(a, b, c, d) ==
    \/ /\ Cross(c, d, a) * Cross(c, d, b) < 0
       /\ Cross(a, b, c) * Cross(a, b, d) < 0
    \/ OnSegment(a, c, d) \/ OnSegment(b, c, d)
    \/ OnSegment(c, a, b) \/ OnSegment(d, a, b)

\* A simple polygon: at least 3 distinct vertices, consecutive edges meet only
\* in their common vertex, and other edges do not meet at all.
Simple(pts) ==
    LET n == Len(pts)
        nxt(i) == NextIndex(i, n)
    IN  /\ n >= 3
        /\ \A i, j \in 1..n : i # j => pts[i] # pts[j]
        /\ \A i \in 1..n :
               /\ ~OnSegment(pts[i], pts[nxt(i)], pts[nxt(nxt(i))])
               /\ ~OnSegment(pts[nxt(nxt(i))], pts[i], pts[nxt(i)])
        /\ \A i, j \in 1..n :
               (j # i /\ j # nxt(i) /\ i # nxt(j)) =>
                   ~SegmentsMeet(pts[i], pts[nxt(i)], pts[j], pts[nxt(j)])

\* A convex polygon: non-zero area, and every vertex lies on the same side of
\* every edge.
Convex(pts) ==
    LET n == Len(pts)
    IN  /\ n >= 3
        /\ ShoelaceSum(pts, 1) # 0
        /\ \/ \A i, k \in 1..n : Cross(pts[i], pts[NextIndex(i, n)], pts[k]) >= 0
           \/ \A i, k \in 1..n : Cross(pts[i], pts[NextIndex(i, n)], pts[k]) <= 0

WallLengthDone == call.fn = "compute_wall_length_in_sector_m"

FirstInside(wall) ==
    point_in_polygon(wall.x1, wall.y1, call.sector.polygon_points)

SecondInside(wall) ==
    point_in_polygon(wall.x2, wall.y2, call.sector.polygon_points)

\* The wall is on the page of the sector and passes the endpoint test.
Contributes(wall) ==
    /\ wall.page_number = call.sector.page_number
    /\ IF call.require_both_endpoints
       THEN FirstInside(wall) /\ SecondInside(wall)
       ELSE FirstInside(wall) \/ SecondInside(wall)

RECURSIVE SumLengthPx(_, _)
SumLengthPx(walls, i) ==
    IF i > Len(walls) THEN 0
    ELSE ISqrt(Sq(walls[i].x2 - walls[i].x1) + Sq(walls[i].y2 - walls[i].y1))
             + SumLengthPx(walls, i + 1)

ContributingWalls == SelectSeq(call.wall_segments, Contributes)

\* Both endpoints inside: contributes; both outside or another page: does not.
EndpointCases ==
    \A i \in 1..Len(call.wall_segments) :
        LET wall == call.wall_segments[i]
        IN  /\ (/\ wall.page_number = call.sector.page_number
                /\ FirstInside(wall) /\ SecondInside(wall)) => Contributes(wall)
            /\ (~FirstInside(wall) /\ ~SecondInside(wall)) => ~Contributes(wall)
            /\ wall.page_number # call.sector.page_number => ~Contributes(wall)

\* C16: compute_wall_length_in_sector_m returns the sum of length_px over
\* exactly the wall segments on the sector's page that pass segment_in_polygon
\* with the given flag, divided by pixels_per_meter and rounded to 4 decimal
\* places; segment_count is the number of contributing segments.
C16_WallLengthRounded ==
    (WallLengthDone /\ ~ret.raised) =>
        /\ EndpointCases
        /\ ret.value.segment_count = Len(ContributingWalls)
        /\ ret.value.value =
               Round4(FracDiv(Frac(SumLengthPx(ContributingWalls, 1), 1),
                              call.pixels_per_meter))

\* C16 as stated: the value returned is the sum of the contributing lengths
\* divided by pixels_per_meter.
C16_WallLengthExact ==
    (WallLengthDone /\ ~ret.raised) =>
        /\ EndpointCases
        /\ ret.value.segment_count = Len(ContributingWalls)
        /\ ret.value.value =
               FracDiv(Frac(SumLengthPx(ContributingWalls, 1), 1),
                       call.pixels_per_meter)

\* A wall inside the square and a wall with the same coordinates on another
\* page, at 3 pixels per meter: one segment, 2 / 3 m rounded to 0.6667 m.
C16_Witness ==
    /\ WallLengthDone
    /\ call.sector.polygon_points = <<<<0, 0>>, <<4, 0>>, <<4, 4>>, <<0, 4>>>>
    /\ call.pixels_per_meter = Frac(3, 1)
    /\ call.require_both_endpoints
    /\ call.wall_segments =
           <<[x1 |-> 1, y1 |-> 1, x2 |-> 3, y2 |-> 1, page_number |-> 1],
             [x1 |-> 1, y1 |-> 1, x2 |-> 3, y2 |-> 1, page_number |-> 2]>>
    /\ ret.value.segment_count = 1
    /\ ret.value.value = Frac(6667, 10000)

DrywallDone == call.fn = "compute_drywall_area_in_sector_m2"

\* The wall length in the sector for the arguments of the call.
WallLengthOfCall ==
    compute_wall_length_in_sector_m(call.wall_segments, call.sector,
                                    call.pixels_per_meter, call.require_both_endpoints)

IsSquareExample ==
    /\ call.sector = SquareSector
    /\ call.wall_segments = <<SquareWall>>
    /\ call.pixels_per_meter = Frac(10, 1)
    /\ call.wall_height_m = Frac(13, 5)

\* C17: compute_drywall_area_in_sector_m2 fails for every wall height <= 0
\* and for a scale without positive pixels_per_meter; otherwise it returns the
\* wall length in the sector multiplied by the wall height, rounded to 4
\* decimal places.  The square sector of side 100 at 10 pixels per meter with
\* the wall (10,50)-(90,50) has wall length 8.0 m and, at height 2.6 m,
\* drywall area 20.8 m2.
C17_DrywallAreaRounded ==
    DrywallDone =>
        /\ call.wall_height_m.num <= 0 => ret.raised
        /\ ~has_scale(call.pixels_per_meter) => ret.raised
        /\ (call.wall_height_m.num > 0 /\ has_scale(call.pixels_per_meter)) =>
               /\ ~ret.raised
               /\ ret.value.unit = "m2"
               /\ ret.value.value =
                      Round4(FracMul(WallLengthOfCall.value.value, call.wall_height_m))
        /\ IsSquareExample =>
               /\ WallLengthOfCall.value.value = Frac(8, 1)
               /\ ret.value.value = Frac(104, 5)

\* C17 as stated: for a positive wall height the value returned is the wall
\* length in the sector multiplied by the wall height.
C17_DrywallAreaExact ==
    DrywallDone =>
        /\ call.wall_height_m.num <= 0 => ret.raised
        /\ (call.wall_height_m.num > 0 /\ ~ret.raised) =>
               ret.value.value = FracMul(WallLengthOfCall.value.value, call.wall_height_m)
        /\ IsSquareExample =>
               /\ WallLengthOfCall.value.value = Frac(8, 1)
               /\ ret.value.value = Frac(104, 5)

\* The square example has been computed: 20.8 m2.
C17_Witness ==
    /\ DrywallDone
    /\ IsSquareExample
    /\ ret = Returned([value |-> Frac(104, 5), unit |-> "m2", segment_count |-> 1,
                       page_number |-> 1])

GewerkDone == call.fn = "run_drywall_gewerk_for_sector"

MapDone == call.fn = "_map_yolo_class_to_object_type"

DetectionDone == call.fn = "run_object_detection_on_page"

\* The lookup the claim describes, on the lower-cased class name.
ClaimedType(key) ==
    IF key \in {<<"d", "o", "o", "r">>, <<"s", "l", "i", "d", "i", "n", "g", " ", "d", "o", "o", "r">>} THEN ObjectType("door")
    ELSE IF key \in {<<"w", "i", "n", "d", "o", "w">>, <<"c", "u", "r", "t", "a", "i", "n", " ", "w", "a", "l", "l">>} THEN ObjectType("window")
    ELSE IF key \in {<<"d", "i", "m", "e", "n", "s", "i", "o", "n">>, <<"d", "i", "m", "e", "n", "s", "i", "o", "n", "_", "l", "i", "n", "e">>} THEN ObjectType("dimension_line")
    ELSE None

UnknownClass == <<"u", "n", "k", "n", "o", "w", "n", "_", "c", "l", "a", "s", "s">>

\* C19: the lookup is case-insensitive and maps "door" and "sliding door" to
\* door, "window" and "curtain wall" to window, "dimension" and
\* "dimension_line" to dimension line; an unknown class maps to nothing and
\* never appears among the objects of run_object_detection_on_page.
C19_ClassLookup ==
    /\ MapDone =>
           /\ ClaimedType(Lower(call.class_name)) # None =>
                  ret.value = ClaimedType(Lower(call.class_name))
           /\ call.class_name = UnknownClass => ret.value = None
    /\ DetectionDone =>
           \A i \in 1..Len(ret.value.objects) :
               /\ ret.value.objects[i].yolo_class # UnknownClass
               /\ ret.value.objects[i].object_type # None

ValidateDone == call.fn = "validate_door_openings"

\* |width_px / pixels_per_meter - std| in millimetres, times the common
\* denominator den: compared with limit * den.
DeviationTimesDen(opening, std) ==
    Abs(1000 * opening.width_px * call.pixels_per_meter.den
            - std * call.pixels_per_meter.num)

CloserThan(opening, limit_mm) ==
    \E std \in StandardWidths :
        DeviationTimesDen(opening, std) < limit_mm * call.pixels_per_meter.num

NotFartherThan(opening, limit_mm) ==
    \E std \in StandardWidths :
        DeviationTimesDen(opening, std) <= limit_mm * call.pixels_per_meter.num

\* min <= width_px / pixels_per_meter <= max
InDoorRange(opening) ==
    /\ call.min_door_width_mm * call.pixels_per_meter.num
           <= 1000 * opening.width_px * call.pixels_per_meter.den
    /\ 1000 * opening.width_px * call.pixels_per_meter.den
           <= call.max_door_width_mm * call.pixels_per_meter.num

OpeningsInRange == SelectSeq(call.openings, InDoorRange)

MeasureDoorsDone == call.fn = "measure_doors_on_page"

\* width = arc radius / pixels_per_meter lies in [lo, hi] centimetres.
WidthBetween(radius, lo_cm, hi_cm) ==
    /\ lo_cm * call.pixels_per_meter.num <= 100 * radius * call.pixels_per_meter.den
    /\ 100 * radius * call.pixels_per_meter.den <= hi_cm * call.pixels_per_meter.num

\* The page holds one arc and one line that matches it: an endpoint within the
\* center tolerance, the length within the length tolerance.
SingleMatchedDoor ==
    /\ call.world.fault = "none"
    /\ Len(call.world.arcs) = 1
    /\ Len(call.world.lines) = 1
    /\ LineQualifies(call.world.lines[1], call.world.arcs[1],
                     MatchSettings(call.world.is_roof_plan))

\* The leaf line is itself as long as a door of lo..hi centimetres is wide.
LeafBetween(lo_cm, hi_cm) == WidthBetween(length_px(call.world.lines[1]), lo_cm, hi_cm)

ExtractDoorsDone == call.fn = "extract_door_symbols_from_page" /\ ~ret.raised

DoorCallLimits ==
    RadiusLimits(call.min_door_width_cm, call.max_door_width_cm, call.pixels_per_meter)

\* The arcs accepted and the lines collected by the call made.
AcceptedArcs == CollectedArcs(call.world, DoorCallLimits)

CandidateLines == CollectedLines(call.world, DoorCallLimits)

DoorCallSettings == MatchSettings(call.world.is_roof_plan)

\* The doors of the result made from the accepted arc i (1-based).
DoorsOfArc(i) == {k \in 1..Len(ret.value) : ret.value[k].arc_index = i - 1}

\* The collected lines (1-based) that are the leaf of a door of an arc before i.
LinesTakenBefore(i) ==
    {ret.value[k].line_index + 1 : k \in {n \in 1..Len(ret.value) : ret.value[n].arc_index < i - 1}}

\* The collected lines that qualify for the accepted arc i and are still free.
FreeQualifying(i) ==
    {j \in 1..Len(CandidateLines) :
        /\ j \notin LinesTakenBefore(i)
        /\ LineQualifies(CandidateLines[j], AcceptedArcs[i], DoorCallSettings)}

\* j is the first line of the least score among the lines of the set.
FirstBest(j, candidates, i) ==
    /\ j \in candidates
    /\ \A m \in candidates :
           \/ LineScore(CandidateLines[j], AcceptedArcs[i])
                  < LineScore(CandidateLines[m], AcceptedArcs[i])
           \/ /\ LineScore(CandidateLines[j], AcceptedArcs[i])
                      = LineScore(CandidateLines[m], AcceptedArcs[i])
              /\ j <= m

\* The lines of the page, collected or not, that qualify for the accepted arc i.
QualifyingOnPage(i) ==
    {j \in 1..Len(call.world.lines) :
        LineQualifies(call.world.lines[j], AcceptedArcs[i], DoorCallSettings)}

\* C22: extract_door_symbols_from_page returns a door for an accepted arc
\* exactly when a collected line that is not yet the leaf of an earlier door
\* qualifies for it, and the leaf line is then the first of the best-scoring
\* such lines.
C22_DoorFromFreeQualifyingLine ==
    ExtractDoorsDone =>
        \A i \in 1..Len(AcceptedArcs) :
            /\ (DoorsOfArc(i) # {}) <=> (FreeQualifying(i) # {})
            /\ \A k \in DoorsOfArc(i) :
                   /\ FirstBest(ret.value[k].line_index + 1, FreeQualifying(i), i)
                   /\ ret.value[k].leaf_line = CandidateLines[ret.value[k].line_index + 1]

\* C22 as stated: a door exactly when some line on the page qualifies, its
\* leaf line a best-scoring qualifying line of the page.
C22_DoorFromAnyQualifyingLine ==
    ExtractDoorsDone =>
        \A i \in 1..Len(AcceptedArcs) :
            /\ (DoorsOfArc(i) # {}) <=> (QualifyingOnPage(i) # {})
            /\ \A k \in DoorsOfArc(i) :
                   \A m \in QualifyingOnPage(i) :
                       LineScore(ret.value[k].leaf_line, AcceptedArcs[i])
                           <= LineScore(call.world.lines[m], AcceptedArcs[i])

\* Two accepted arcs and one line that qualifies for both: the first arc
\* became a door, the second did not.
C22_Witness ==
    /\ ExtractDoorsDone
    /\ Len(AcceptedArcs) = 2
    /\ Len(CandidateLines) = 1
    /\ QualifyingOnPage(1) = {1}
    /\ QualifyingOnPage(2) = {1}
    /\ Len(ret.value) = 1
    /\ ret.value[1].arc_index = 0
    /\ ret.value[1].line_index = 0

\* C29: in the result of extract_door_symbols_from_page every door comes from
\* an accepted arc and a collected line, no two doors come from the same arc
\* and no two doors have the same leaf line.
C29_OneDoorPerArcAndLine ==
    ExtractDoorsDone =>
        /\ \A k \in 1..Len(ret.value) :
               /\ ret.value[k].arc_index + 1 \in 1..Len(AcceptedArcs)
               /\ ret.value[k].line_index + 1 \in 1..Len(CandidateLines)
               /\ ret.value[k].leaf_line = CandidateLines[ret.value[k].line_index + 1]
        /\ \A k, n \in 1..Len(ret.value) :
               k # n => /\ ret.value[k].arc_index # ret.value[n].arc_index
                        /\ ret.value[k].line_index # ret.value[n].line_index

\* Two arcs found two different leaf lines although the first line qualifies
\* for both of them.
C29_Witness ==
    /\ ExtractDoorsDone
    /\ Len(ret.value) = 2
    /\ QualifyingOnPage(1) = {1, 2}
    /\ QualifyingOnPage(2) = {1, 2}
    /\ ret.value[1].line_index # ret.value[2].line_index

ExtractWindowsDone == call.fn = "extract_window_symbols_from_page" /\ ~ret.raised

\* door_exclusion_px of the call made.
DoorExclusionOfCall == WindowLimits(40, 350, call.pixels_per_meter).door_exclusion_px

\* C23: no window returned by extract_window_symbols_from_page has its center
\* closer than the exclusion radius to a supplied door center.
C23_NoWindowCenterNearDoor ==
    (ExtractWindowsDone /\ call.door_centers.given) =>
        \A k \in 1..Len(ret.value) :
            ~NearDoor(ret.value[k].center[1], ret.value[k].center[2],
                      call.door_centers.list, DoorExclusionOfCall)

YoloPrimaryDone == call.fn = "detect_doors_yolo_primary" /\ ~ret.raised

\* The doors of the primary detector: one per detection when the page was
\* rendered and the detection ran, none otherwise.
PrimaryDoors ==
    IF call.world.yolo_available /\ call.world.yolo_fault = "none"
    THEN [i \in 1..Len(call.world.yolo_result.objects) |->
             YoloDoor(call.world.yolo_result.objects[i], i)]
    ELSE <<>>

\* The doors the wall-opening pipeline returns for the page at 300 DPI.
WallOpeningDoors ==
    LET wall_result == detect_doors_from_wall_openings(
                           [scale |-> call.args.scale, dpi |-> 300,
                            debug_output_dir |-> FALSE], call.world.wall, {})
    IN  IF wall_result.ret.raised THEN <<>> ELSE wall_result.ret.value.doors

\* The doors of the result after the primary doors.
SupplementalDoors ==
    SubSeq(ret.value.doors, Len(PrimaryDoors) + 1, Len(ret.value.doors))

\* C24: detect_doors_yolo_primary calls the wall-opening pipeline exactly when
\* supplementation is enabled and the primary detector returned fewer than 3
\* doors; the result starts with the primary doors, unchanged, and every door
\* after them is a door of the wall-opening pipeline with the tag
\* wall_opening_supplement added and 0.8 times its confidence.
C24_SupplementOnlyForFewPrimaryDoors ==
    YoloPrimaryDone =>
        /\ call.wall_opening_calls = 1 <=>
               (call.args.use_wall_opening_validation /\ Len(PrimaryDoors) < 3)
        /\ call.wall_opening_calls = 0 => SupplementalDoors = <<>>
        /\ Len(ret.value.doors) >= Len(PrimaryDoors)
        /\ SubSeq(ret.value.doors, 1, Len(PrimaryDoors)) = PrimaryDoors
        /\ \A k \in 1..Len(SupplementalDoors) :
               \E n \in 1..Len(WallOpeningDoors) :
                   /\ SupplementalDoors[k].opening_id = WallOpeningDoors[n].opening_id
                   /\ SupplementalDoors[k].detection_signals =
                          Append(WallOpeningDoors[n].detection_signals,
                                 "wall_opening_supplement")
                   /\ 5 * SupplementalDoors[k].confidence = 4 * WallOpeningDoors[n].confidence

\* Two primary doors and a wall-opening door of confidence 0.9 kept at 0.72.
C24_Witness ==
    /\ YoloPrimaryDone
    /\ call.wall_opening_calls = 1
    /\ Len(PrimaryDoors) = 2
    /\ Len(ret.value.doors) = 3
    /\ WallOpeningDoors[1].confidence = 90
    /\ ret.value.doors[3].confidence = 72
    /\ ret.value.doors[3].detection_signals[Len(ret.value.doors[3].detection_signals)]
           = "wall_opening_supplement"

\* The stages of the wall-opening pipeline in their order.
WallStageOrder ==
    <<"render_pdf_page_high_dpi", "extract_wall_mask", "find_wall_openings",
      "detect_hatch_regions", "filter_openings_in_hatch", "validate_door_openings",
      "deduplicate_openings">>

StagePosition(stage) == CHOOSE k \in 1..Len(WallStageOrder) : WallStageOrder[k] = stage

\* The stages called follow the order of the pipeline.
StagesInOrder ==
    \A k \in 1..(Len(call.stages) - 1) :
        StagePosition(call.stages[k]) < StagePosition(call.stages[k + 1])

\* The last stage called yielded no data: the render failed, the wall mask is
\* empty or no candidate opening was found.
StageYieldedNoData(stage) ==
    \/ stage = "render_pdf_page_high_dpi" /\ call.world.fault \in RenderFaults
    \/ stage = "extract_wall_mask" /\ call.world.fault = "empty_mask"
    \/ /\ stage = "find_wall_openings"
       /\ call.world.fault = "none"
       /\ call.world.openings = <<>>

\* C25: the wall-opening pipeline calls its stages in the fixed order and
\* stops at the first stage that yields no data: no later stage is called and
\* the result contains no doors.
C25_TerminalOnStageWithoutData ==
    (WallDone /\ ~ret.raised) =>
        /\ StagesInOrder
        /\ \A k \in 1..Len(call.stages) :
               StageYieldedNoData(call.stages[k]) =>
                   /\ k = Len(call.stages)
                   /\ ret.value.doors = <<>>

\* The distance of the two centers is below 100 px once the center of the
\* wall opening, found at 300 DPI, is brought to the resolution of the
\* primary pass (both sides of the comparison are multiplied by 6, the
\* resolutions being multiples of 50).
SameSpaceDuplicate(wo_door, yolo_door) ==
    Sq(wo_door.center_x * (call.args.dpi \div 50) - yolo_door.center_x * 6)
        + Sq(wo_door.center_y * (call.args.dpi \div 50) - yolo_door.center_y * 6)
            < Sq(100 * 6)

\* C26: in detect_doors_yolo_primary a wall-opening door is left out of the
\* result exactly when its center, brought to the pixel space of the primary
\* pass, is less than 100 px from the center of a primary door.
C26_DuplicateBySamePixelSpace ==
    (YoloPrimaryDone /\ call.wall_opening_calls = 1) =>
        \A n \in 1..Len(WallOpeningDoors) :
            (\E k \in 1..Len(PrimaryDoors) :
                 SameSpaceDuplicate(WallOpeningDoors[n], PrimaryDoors[k]))
                <=> ~\E m \in 1..Len(SupplementalDoors) :
                        SupplementalDoors[m].opening_id = WallOpeningDoors[n].opening_id

FindGapsDone == call.fn = "_find_collinear_gaps"

\* The lines of the group an opening was found in: those at a position from
\* that of the opening up to the tolerance of 20 px beyond it.
GroupOfOpening(opening) ==
    LET line_pos == IF call.orientation = "horizontal" THEN opening.center_y
                    ELSE opening.center_x
    IN  {k \in 1..Len(call.lines) :
            /\ line_pos <= position_key(call.lines[k], call.orientation)
            /\ position_key(call.lines[k], call.orientation) <= line_pos + 2 * 20}

\* The line covers a part of the gap of the opening: of the open interval
\* of width_px around gap_center (positions doubled).
CoversPartOfGap(line, opening) ==
    LET gap_center == IF call.orientation = "horizontal" THEN opening.center_x
                      ELSE opening.center_y
        extent == extent_key(line, call.orientation)
    IN  /\ 2 * extent[1] < gap_center + opening.width_px
        /\ 2 * extent[2] > gap_center - opening.width_px

\* C28: no wall segment of its collinear group covers a part of the interval
\* of a candidate opening that _find_collinear_gaps returns.
C28_OpeningLiesInTrueGap ==
    FindGapsDone =>
        \A n \in 1..Len(ret.value) :
            \A k \in GroupOfOpening(ret.value[n]) :
                ~CoversPartOfGap(call.lines[k], ret.value[n])

\* C27: deduplicate_openings returns openings of its input, an opening of the
\* greatest confidence among them, and every opening it discards is closer
\* than the threshold to a kept opening of at least its confidence.
C27_DiscardedNearKeptOfNoLessConfidence ==
    DedupDone =>
        /\ Range(ret) \subseteq Range(call.openings)
        /\ \A i, j \in 1..Len(ret) : i # j => ret[i] # ret[j]
        /\ call.openings # <<>> =>
               \E k \in Range(ret) :
                   \A o \in Range(call.openings) : k.confidence >= o.confidence
        /\ \A o \in Range(call.openings) \ Range(ret) :
               \E k \in Range(ret) :
                   /\ DistSq(o, k) < Sq(call.distance_threshold_px)
                   /\ k.confidence >= o.confidence

\* An opening of confidence 0.75 that came first in the input was discarded
\* for a later opening of confidence 0.9.
C27_Witness ==
    /\ DedupDone
    /\ Len(call.openings) >= 2
    /\ call.openings[1].confidence = 75
    /\ call.openings[1] \notin Range(ret)
    /\ \E k \in Range(ret) :
           /\ k.confidence = 90
           /\ DistSq(call.openings[1], k) < Sq(call.distance_threshold_px)

\* The step ends the store_scale_context call of client c with success = false.
StoreCallFails(c) ==
    /\ storeClient[c].pc # "idle"
    /\ storeClient'[c].pc = "idle"
    /\ ~storeClient'[c].result.success

\* No other client has made a call.
StoreAlone(c) == \A d \in Clients \ {c} : storeClient[d] = IdleClient

\* C30: when a store_scale_context call that no other call overlaps ends with
\* success = false, the scale contexts of the file are the ones it had when
\* the call began, the active one included.
C30_FailedStoreLeavesRowsUnchanged ==
    [][\A c \in Clients :
          (StoreAlone(c) /\ StoreCallFails(c)) =>
              {r \in scale_contexts' : r.file_id = storeClient[c].file_id}
                  = storeClient[c].rows_before]_vars

====
